---- MODULE Spec2Model ----
(***************************************************************************)
(* bip-rs: the peer wire protocol engine (bip_peer/src/protocol/wire.rs)   *)
(* of one connection, driven by the reactor callbacks bytes_read,          *)
(* bytes_flushed, timeout, wakeup, exception and fatal, together with its  *)
(* environment: the remote peer, the selector, the disk manager and the    *)
(* reactor clock.                                                          *)
(***************************************************************************)
EXTENDS Integers, Sequences, FiniteSets, TLC

\* ---------------------------------------------------------------- constants

\* wire.rs:28
MAX_INCOMING_MESSAGES == 8
\* wire.rs:34 (2 * 60 * 1000)
MAX_PEER_TIMEOUT_MILLIS == 120000
\* wire.rs:35 ((30 + 60) * 1000)
MAX_SELF_TIMEOUT_MILLIS == 90000
\* message::MESSAGE_LENGTH_LEN_BYTES: the 4-byte big-endian length prefix
MESSAGE_LENGTH_LEN_BYTES == 4

\* ------------------------------------------------------------------- bounds

\* The reactor clock advances in steps of TimeUnit milliseconds, up to MaxNow.
TimeUnit == 60000
MaxNow == 180000
\* Inputs (frames of the remote peer plus messages of the selector) in one run
\* of Spec, of SpecWire and of SpecFlow.
MaxInputs == 2
MaxWireInputs == 4
MaxFlowMsgs == 10
\* Inputs of SpecChannel: the peer's frame and the selector's try_send calls.
MaxChannelMsgs == 9
MaxChannelPieces == 1
\* Calls of add_pending_block in one run of SpecChecker.
MaxAdds == 4
\* The file layouts of SpecAccessor: up to MaxFiles files of up to MaxFileSize
\* bytes, and blocks of up to MaxBlockLength bytes.
MaxFiles == 3
MaxFileSize == 3
MaxBlockLength == 10
\* The torrents of SpecStartup: up to MaxFiles files of up to MaxStartFileSize
\* bytes.
MaxStartFileSize == 2

VARIABLES
    state,          \* WireProtocol.state
    write_queue,    \* WireProtocol.write_queue: <<[msg, token]>>
    block_queue,    \* WireProtocol.block_queue: Token -> MessageType
    last_sent,      \* WireProtocol.last_sent
    last_recvd,     \* WireProtocol.last_recvd
    recv,           \* the inbound channel WireProtocol.recv (IProtocolMessage)
    unacked,        \* the SplitSender's counter of sent, not yet acked messages
    in_buffer,      \* Transport input buffer (bytes)
    out_buffer,     \* Transport output buffer (messages written, not flushed)
    deadline,       \* the deadline of the Intent the last callback returned
    next_token,     \* the disk manager's token counter
    blocks,         \* the disk manager's reserved slots: Token -> bytes written
    sel_out,        \* OProtocolMessageKinds sent to the selector, in order
    disk_out,       \* IDiskMessages sent to the disk manager, in order
    outcome,        \* "live", "disconnected" (Intent::error) or "aborted" (panic)
    error,          \* the ProtocolErrorKind of the disconnect, "None" while live
    now,            \* the reactor clock (scope.now())
    peer_sent,      \* history: the messages the peer has sent, in order
    consumed,       \* history: the number of bytes consumed from in_buffer
    wire_out,       \* history: the messages flushed to the peer, in order
    answered,       \* history: the tokens the disk manager has answered
    sel_sent,       \* history: how many messages the selector tried to send
    sel_log,        \* history: the messages the SplitSender took from the selector
    recv_time,      \* history: the time of the latest bytes_read callback
    info,           \* the torrent's InfoDictionary: [files, piece_length, pieces]
    fs,             \* the FileSystem: the bytes of each file of the torrent
    checker_state,  \* PieceCheckerState
    phase,          \* where the disk side stands ("idle" while only the wire runs)
    msg,            \* the PieceMessage given to the PieceAccessor
    buf,            \* the buffer given to write_piece
    out,            \* the buffer read_piece filled
    io,             \* history: the file system calls of the last operation
    result,         \* the TorrentResult of the last operation
    fs0,            \* history: the file system before the last operation
    reported,       \* history: the pieces pushed Good and not added to since
    last_op,        \* history: the last PieceCheckerState operation
    adds,           \* history: the number of add_pending_block calls
    size_check      \* the ExistingFileSizeCheck of PieceChecker::new, if any

conn_vars == <<state, write_queue, block_queue, last_sent, last_recvd, recv, unacked,
               in_buffer, out_buffer, deadline, next_token, blocks, sel_out, disk_out,
               outcome, error, consumed>>
env_vars == <<now, peer_sent, wire_out, answered, sel_sent, sel_log, recv_time>>
store_vars == <<info, fs, checker_state, phase, msg, buf, out, io, result, fs0,
                reported, last_op, adds, size_check>>
vars == <<conn_vars, env_vars, store_vars>>

\* ------------------------------------------------------------------- values

NoToken == 0

\* The DiskReserve state remembering another token than the one it was given.
DiskReserve_OtherToken(tok, len) == [k |-> "DiskReserve", token |-> tok + 1, len |-> len]

\* WireState (wire.rs:61-72)
ReadLength == [k |-> "ReadLength", token |-> NoToken, len |-> 0]
ReadPayload(len) == [k |-> "ReadPayload", token |-> NoToken, len |-> len]
DiskReserve(tok, len) == [k |-> "DiskReserve", token |-> tok, len |-> len]
WritePayload == [k |-> "WritePayload", token |-> NoToken, len |-> 0]

\* MessageType and PieceMessage: a, b, c are the message's integer fields
\* (Have: a = piece index; Request, Cancel, Piece: a = piece index,
\* b = block offset, c = block length), bits the BitField bitmap.
Msg(t, a, b, c, bits) == [t |-> t, a |-> a, b |-> b, c |-> c, bits |-> bits]
KeepAliveMsg == Msg("KeepAlive", 0, 0, 0, <<>>)
ChokeMsg == Msg("Choke", 0, 0, 0, <<>>)
UnChokeMsg == Msg("UnChoke", 0, 0, 0, <<>>)
InterestedMsg == Msg("Interested", 0, 0, 0, <<>>)
UnInterestedMsg == Msg("UnInterested", 0, 0, 0, <<>>)
HaveMsg(i) == Msg("Have", i, 0, 0, <<>>)
BitFieldMsg(bits) == Msg("BitField", 0, 0, 0, bits)
RequestMsg(i, o, l) == Msg("Request", i, o, l, <<>>)
PieceMsg(i, o, l) == Msg("Piece", i, o, l, <<>>)
CancelMsg(i, o, l) == Msg("Cancel", i, o, l, <<>>)
ExtensionMsg == Msg("Extension", 0, 0, 0, <<>>)

\* OSelectorMessageKind (selector/mod.rs:96-119): the kind and its message.
SelKind(k, m) == [kind |-> k, msg |-> m]
\* OProtocolMessageKind sent to the selector: the kind, its token and message.
ProtKind(k, tok, m) == [kind |-> k, token |-> tok, msg |-> m]
PeerDisconnectKind == ProtKind("PeerDisconnect", NoToken, KeepAliveMsg)

\* IDiskMessage sent to the disk manager.
DiskMsg(k, tok, m) == [kind |-> k, token |-> tok, msg |-> m]

\* IProtocolMessage in the inbound channel.
FromDisk(k, tok) == [src |-> "DiskManager", kind |-> k, token |-> tok, msg |-> KeepAliveMsg]
FromSelector(sk) == [src |-> "PieceManager", kind |-> sk.kind, token |-> NoToken, msg |-> sk.msg]

\* ------------------------------------------------- message codec (spec 4.5)

\* The 4-byte big-endian encoding of n, and its inverse at position i of s.
BE4(n) == << (n \div 16777216) % 256, (n \div 65536) % 256, (n \div 256) % 256, n % 256 >>
FromBE4(s, i) == s[i] * 16777216 + s[i + 1] * 65536 + s[i + 2] * 256 + s[i + 3]

\* message::parse_message_length: the length prefix at the head of the buffer.
ParseMessageLength(bytes) == FromBE4(bytes, 1)

\* MessageType::write_bytes as the remote peer runs it: the frame of message m,
\* block being the payload bytes of a Piece.
Encode(m, block) ==
    CASE m.t = "KeepAlive" -> BE4(0)
      [] m.t = "Choke" -> BE4(1) \o <<0>>
      [] m.t = "UnChoke" -> BE4(1) \o <<1>>
      [] m.t = "Interested" -> BE4(1) \o <<2>>
      [] m.t = "UnInterested" -> BE4(1) \o <<3>>
      [] m.t = "Have" -> BE4(5) \o <<4>> \o BE4(m.a)
      [] m.t = "BitField" -> BE4(1 + Len(m.bits)) \o <<5>> \o m.bits
      [] m.t = "Request" -> BE4(13) \o <<6>> \o BE4(m.a) \o BE4(m.b) \o BE4(m.c)
      [] m.t = "Piece" -> BE4(9 + Len(block)) \o <<7>> \o BE4(m.a) \o BE4(m.b) \o block
      [] m.t = "Cancel" -> BE4(13) \o <<8>> \o BE4(m.a) \o BE4(m.b) \o BE4(m.c)
      [] m.t = "Extension" -> BE4(2) \o <<20, 0>>

\* The results of the decoder: IResult::Done(msg), or IResult::Error/Incomplete.
Done(m) == [ok |-> TRUE, msg |-> m]
DecodeError == [ok |-> FALSE, msg |-> KeepAliveMsg]

\* MessageType::from_bytes on the first L + 4 bytes of the input buffer: the set
\* of results it can give. An id-20 frame is the reserved Extension message:
\* the decoder's type has the variant MessageType::Extension (wire.rs:300
\* matches on it), while the spec's message table lets its decoding fail, so
\* both results are possible.
FromBytes(bytes) ==
    IF Len(bytes) < MESSAGE_LENGTH_LEN_BYTES THEN {DecodeError}
    ELSE LET L == ParseMessageLength(bytes)
             id == bytes[5]
         IN  IF L = 0 THEN {Done(KeepAliveMsg)}
             ELSE IF Len(bytes) < L + MESSAGE_LENGTH_LEN_BYTES THEN {DecodeError}
             ELSE CASE id = 0 /\ L = 1 -> {Done(ChokeMsg)}
                    [] id = 1 /\ L = 1 -> {Done(UnChokeMsg)}
                    [] id = 2 /\ L = 1 -> {Done(InterestedMsg)}
                    [] id = 3 /\ L = 1 -> {Done(UnInterestedMsg)}
                    [] id = 4 /\ L = 5 -> {Done(HaveMsg(FromBE4(bytes, 6)))}
                    [] id = 5 -> {Done(BitFieldMsg(SubSeq(bytes, 6, L + 4)))}
                    [] id = 6 /\ L = 13 ->
                         {Done(RequestMsg(FromBE4(bytes, 6), FromBE4(bytes, 10), FromBE4(bytes, 14)))}
                    [] id = 7 /\ L >= 9 ->
                         {Done(PieceMsg(FromBE4(bytes, 6), FromBE4(bytes, 10), L - 9))}
                    [] id = 8 /\ L = 13 ->
                         {Done(CancelMsg(FromBE4(bytes, 6), FromBE4(bytes, 10), FromBE4(bytes, 14)))}
                    [] id = 20 -> {Done(ExtensionMsg), DecodeError}
                    [] OTHER -> {DecodeError}

\* ------------------------------------------------------ the engine (wire.rs)

\* The connection and what its callbacks act on, as one record.
Conn ==
    [state |-> state, write_queue |-> write_queue, block_queue |-> block_queue,
     last_sent |-> last_sent, last_recvd |-> last_recvd, recv |-> recv,
     unacked |-> unacked, in_buffer |-> in_buffer, out_buffer |-> out_buffer,
     deadline |-> deadline, next_token |-> next_token, blocks |-> blocks,
     sel_out |-> sel_out, disk_out |-> disk_out, outcome |-> outcome,
     error |-> error, consumed |-> consumed]

Install(c) ==
    /\ state' = c.state
    /\ write_queue' = c.write_queue
    /\ block_queue' = c.block_queue
    /\ last_sent' = c.last_sent
    /\ last_recvd' = c.last_recvd
    /\ recv' = c.recv
    /\ unacked' = c.unacked
    /\ in_buffer' = c.in_buffer
    /\ out_buffer' = c.out_buffer
    /\ deadline' = c.deadline
    /\ next_token' = c.next_token
    /\ blocks' = c.blocks
    /\ sel_out' = c.sel_out
    /\ disk_out' = c.disk_out
    /\ outcome' = c.outcome
    /\ error' = c.error
    /\ consumed' = c.consumed

\* A panic!, unreachable! or unimplemented! of the engine: the callback aborts.
Abort(c) == [c EXCEPT !.outcome = "aborted"]

\* Buf::consume(n)
Consume(c, n) ==
    [c EXCEPT !.in_buffer = SubSeq(@, n + 1, Len(@)), !.consumed = @ + n]

\* peer_timeout with >= for >: times out at exactly two minutes.
PeerTimeout_Inclusive(c, t) == t >= c.last_recvd + MAX_PEER_TIMEOUT_MILLIS

\* wire.rs:103-108
PeerTimeout(c, t) == t > c.last_recvd + MAX_PEER_TIMEOUT_MILLIS

\* wire.rs:111-113
SelfTimeout(t) == t + MAX_SELF_TIMEOUT_MILLIS

\* wire.rs:116-120: the disk manager's sender takes every message.
SendDiskMessage(c, m) == [c EXCEPT !.disk_out = Append(@, m)]

\* DiskManagerAccess::new_request_token: a fresh token at every call.
NewRequestToken(c) == [c EXCEPT !.next_token = @ + 1]

\* SplitSender::try_send over the ProtocolSender of the bounded channel
\* (wire.rs:331-335): takes one credit and enqueues, or returns the message.
TrySend(c, sk) ==
    IF c.unacked < MAX_INCOMING_MESSAGES /\ Len(c.recv) < MAX_INCOMING_MESSAGES + 1
    THEN [c EXCEPT !.unacked = @ + 1, !.recv = Append(@, FromSelector(sk))]
    ELSE c

\* SplitSenderAck::ack
Ack(c) == [c EXCEPT !.unacked = @ - 1]

\* process_message queueing an outbound Piece for writing at once, with its
\* token, instead of holding it in block_queue until the block is loaded.
ProcessPiece_NoWait(c, piece_msg) ==
    LET c1 == NewRequestToken(c)
        token == c1.next_token
        c2 == SendDiskMessage(c1, DiskMsg("LoadBlock", token, piece_msg))
    IN  [c2 EXCEPT !.write_queue = Append(@, [msg |-> piece_msg, token |-> token])]

\* process_message keying the outbound Piece by the token drawn before this
\* one instead of the fresh token.
ProcessPiece_StaleToken(c, piece_msg) ==
    LET c1 == NewRequestToken(c)
        token == c.next_token
        c2 == SendDiskMessage(c1, DiskMsg("LoadBlock", token, piece_msg))
    IN  [c2 EXCEPT !.block_queue =
            [x \in DOMAIN @ \cup {token} |-> IF x = token THEN piece_msg ELSE @[x]]]

\* wire.rs:144-150: an outbound Piece waits in block_queue for its block.
ProcessPiece(c, piece_msg) ==
    LET c1 == NewRequestToken(c)
        token == c1.next_token
        c2 == SendDiskMessage(c1, DiskMsg("LoadBlock", token, piece_msg))
    IN  [c2 EXCEPT !.block_queue =
            [x \in DOMAIN @ \cup {token} |-> IF x = token THEN piece_msg ELSE @[x]]]

\* wire.rs:125-155 (the selector sends messages of this connection's id only).
ProcessMessage(c, t, m) ==
    LET c1 == [c EXCEPT !.last_sent = t]
        push(mt) == [c1 EXCEPT !.write_queue = Append(@, [msg |-> mt, token |-> NoToken])]
    IN  CASE m.kind = "PeerKeepAlive" -> push(KeepAliveMsg)
          [] m.kind = "PeerDisconnect" -> c1
          [] m.kind = "PeerChoke" -> push(ChokeMsg)
          [] m.kind = "PeerUnChoke" -> push(UnChokeMsg)
          [] m.kind = "PeerInterested" -> push(InterestedMsg)
          [] m.kind = "PeerNotInterested" -> push(UnInterestedMsg)
          [] m.kind = "PeerHave" -> push(m.msg)
          [] m.kind = "PeerBitField" -> push(m.msg)
          [] m.kind = "PeerRequest" -> push(m.msg)
          [] m.kind = "PeerPiece" -> ProcessPiece(c1, m.msg)
          [] m.kind = "PeerCancel" -> push(m.msg)

\* process_disk putting a loaded Piece at the front of write_queue.
ProcessDisk_PushFront(c, token) ==
    IF token \in DOMAIN c.block_queue
    THEN [c EXCEPT !.block_queue = [x \in DOMAIN @ \ {token} |-> @[x]],
                   !.write_queue = <<[msg |-> c.block_queue[token], token |-> token]>> \o @]
    ELSE IF c.state.k = "DiskReserve" /\ c.state.token = token
    THEN LET len == c.state.len
             c1 == [c EXCEPT !.blocks =
                        [x \in DOMAIN @ \cup {token} |->
                            IF x = token THEN SubSeq(c.in_buffer, 1, len) ELSE @[x]]]
             c2 == SendDiskMessage(c1, DiskMsg("ProcessBlock", token, KeepAliveMsg))
             c3 == Consume(c2, len)
         IN  [c3 EXCEPT !.state = ReadLength]
    ELSE Abort(c)

\* process_disk looking the token up without removing it from block_queue.
ProcessDisk_KeepEntry(c, token) ==
    IF token \in DOMAIN c.block_queue
    THEN [c EXCEPT !.write_queue = Append(@, [msg |-> c.block_queue[token], token |-> token])]
    ELSE IF c.state.k = "DiskReserve" /\ c.state.token = token
    THEN LET len == c.state.len
             c1 == [c EXCEPT !.blocks =
                        [x \in DOMAIN @ \cup {token} |->
                            IF x = token THEN SubSeq(c.in_buffer, 1, len) ELSE @[x]]]
             c2 == SendDiskMessage(c1, DiskMsg("ProcessBlock", token, KeepAliveMsg))
             c3 == Consume(c2, len)
         IN  [c3 EXCEPT !.state = ReadLength]
    ELSE Abort(c)

\* wire.rs:158-178
ProcessDisk(c, token) ==
    IF token \in DOMAIN c.block_queue
    THEN [c EXCEPT !.block_queue = [x \in DOMAIN @ \ {token} |-> @[x]],
                   !.write_queue = Append(@, [msg |-> c.block_queue[token], token |-> token])]
    ELSE IF c.state.k = "DiskReserve" /\ c.state.token = token
    THEN LET len == c.state.len
             c1 == [c EXCEPT !.blocks =
                        [x \in DOMAIN @ \cup {token} |->
                            IF x = token THEN SubSeq(c.in_buffer, 1, len) ELSE @[x]]]
             c2 == SendDiskMessage(c1, DiskMsg("ProcessBlock", token, KeepAliveMsg))
             c3 == Consume(c2, len)
         IN  [c3 EXCEPT !.state = ReadLength]
    ELSE Abort(c)

\* advance_disconnect telling the selector whatever closure it was given.
AdvanceDisconnect_AlwaysNotify(c, notify, kind) ==
    [c EXCEPT !.sel_out = Append(@, PeerDisconnectKind),
              !.outcome = "disconnected",
              !.error = kind]

\* advance_disconnect returning an Intent that keeps the state machine.
AdvanceDisconnect_StayLive(c, notify, kind) ==
    [c EXCEPT !.sel_out = IF notify THEN Append(@, PeerDisconnectKind) ELSE @,
              !.error = kind]

\* wire.rs:181-187: notify is whether sel_send forwards to the selector.
AdvanceDisconnect(c, notify, kind) ==
    [c EXCEPT !.sel_out = IF notify THEN Append(@, PeerDisconnectKind) ELSE @,
              !.outcome = "disconnected",
              !.error = kind]

\* advance_write acking outside the test of bytes_flushed: every call acks.
FlushAck_EveryCall(c, bytes_flushed) ==
    Ack([c EXCEPT !.state = IF bytes_flushed THEN ReadLength ELSE @])

\* advance_write giving two credits back for one flushed write.
FlushAck_Twice(c, bytes_flushed) ==
    IF bytes_flushed THEN Ack(Ack([c EXCEPT !.state = ReadLength])) ELSE c

\* wire.rs:245-251: a flush resets the state and acks the write.
FlushAck(c, bytes_flushed) ==
    IF bytes_flushed THEN Ack([c EXCEPT !.state = ReadLength]) ELSE c

\* advance_write without the test of the state: writes whenever one is queued.
CanWrite_AnyState(c) == c.write_queue # <<>>

\* wire.rs:254: whether the front of write_queue may be written now.
CanWrite(c) == c.write_queue # <<>> /\ c.state = ReadLength

\* wire.rs:243-275
AdvanceWrite(c, t, bytes_flushed) ==
    LET c1 == FlushAck(c, bytes_flushed)
        front == Head(c1.write_queue)
        c2 == IF CanWrite(c1)
              THEN LET w == [c1 EXCEPT !.write_queue = Tail(@),
                                       !.out_buffer = Append(@, front),
                                       !.state = WritePayload]
                   IN  IF front.token # NoToken
                       THEN SendDiskMessage(w, DiskMsg("ReclaimBlock", front.token, KeepAliveMsg))
                       ELSE w
              ELSE c1
    IN  [c2 EXCEPT !.deadline = SelfTimeout(t)]

\* wire.rs:288-302: Some(kind), None for KeepAlive; Extension is unimplemented!().
MapMessageType(m, request_token) ==
    CASE m.t = "KeepAlive" -> [some |-> FALSE, abort |-> FALSE, kind |-> PeerDisconnectKind]
      [] m.t = "Choke" -> [some |-> TRUE, abort |-> FALSE, kind |-> ProtKind("PeerChoke", NoToken, m)]
      [] m.t = "UnChoke" -> [some |-> TRUE, abort |-> FALSE, kind |-> ProtKind("PeerUnChoke", NoToken, m)]
      [] m.t = "Interested" -> [some |-> TRUE, abort |-> FALSE, kind |-> ProtKind("PeerInterested", NoToken, m)]
      [] m.t = "UnInterested" -> [some |-> TRUE, abort |-> FALSE, kind |-> ProtKind("PeerUnInterested", NoToken, m)]
      [] m.t = "Have" -> [some |-> TRUE, abort |-> FALSE, kind |-> ProtKind("PeerHave", NoToken, m)]
      [] m.t = "BitField" -> [some |-> TRUE, abort |-> FALSE, kind |-> ProtKind("PeerBitField", NoToken, m)]
      [] m.t = "Request" -> [some |-> TRUE, abort |-> FALSE, kind |-> ProtKind("PeerRequest", NoToken, m)]
      [] m.t = "Piece" -> [some |-> TRUE, abort |-> FALSE, kind |-> ProtKind("PeerPiece", request_token, m)]
      [] m.t = "Cancel" -> [some |-> TRUE, abort |-> FALSE, kind |-> ProtKind("PeerCancel", NoToken, m)]
      [] m.t = "Extension" -> [some |-> FALSE, abort |-> TRUE, kind |-> PeerDisconnectKind]

\* wire.rs:279-285 on one result of the decoder: Ok(Option<kind>), Err, or abort.
ParseKindMessage(res, request_token) ==
    IF res.ok
    THEN LET mapped == MapMessageType(res.msg, request_token)
         IN  [ok |-> TRUE, abort |-> mapped.abort, some |-> mapped.some, kind |-> mapped.kind]
    ELSE [ok |-> FALSE, abort |-> FALSE, some |-> FALSE, kind |-> PeerDisconnectKind]

\* advance_read forgetting that the length prefix is still in the buffer.
ExpectedLen_NoPrefix(bytes) == ParseMessageLength(bytes)

\* wire.rs:198: the length prefix is not consumed, so it counts as expected.
ExpectedLen(bytes) == ParseMessageLength(bytes) + MESSAGE_LENGTH_LEN_BYTES

\* advance_read consuming a whole Piece frame, its block included.
HeaderLen_WholeFrame(len, piece_msg) == len

\* wire.rs:209: the bytes of a Piece frame before its block.
HeaderLen(len, piece_msg) == len - piece_msg.c

\* wire.rs:190-234, res being the decoder's result for the payload.
AdvanceRead(c, t, res) ==
    CASE c.state.k = "ReadLength" ->
           LET expected_len == ExpectedLen(c.in_buffer)
           IN  AdvanceWrite([c EXCEPT !.state = ReadPayload(expected_len)], t, FALSE)
      [] c.state.k = "ReadPayload" ->
           LET len == c.state.len
               c1 == NewRequestToken(c)
               parsed == ParseKindMessage(res, c1.next_token)
           IN  IF parsed.abort THEN Abort(c1)
               ELSE IF ~parsed.ok THEN AdvanceDisconnect(c1, TRUE, "InvalidMessage")
               ELSE IF parsed.some /\ parsed.kind.kind = "PeerPiece"
               THEN LET piece_msg == parsed.kind.msg
                        token == parsed.kind.token
                        c2 == Consume(c1, HeaderLen(len, piece_msg))
                        c3 == [c2 EXCEPT !.state = DiskReserve(token, piece_msg.c)]
                        c4 == SendDiskMessage(c3, DiskMsg("ReserveBlock", token, piece_msg))
                        c5 == [c4 EXCEPT !.sel_out = Append(@, parsed.kind)]
                    IN  AdvanceWrite(c5, t, FALSE)
               ELSE LET c2 == Consume(c1, len)
                        c3 == [c2 EXCEPT !.state = ReadLength]
                        c4 == IF parsed.some
                              THEN [c3 EXCEPT !.sel_out = Append(@, parsed.kind)]
                              ELSE c3
                    IN  AdvanceWrite(c4, t, FALSE)
      [] OTHER -> Abort(c)

\* wire.rs:405-425: the loop over recv.try_recv(), then advance_write.
RECURSIVE DrainRecv(_, _)
DrainRecv(c, t) ==
    IF c.recv = <<>> THEN AdvanceWrite(c, t, FALSE)
    ELSE LET m == Head(c.recv)
             c1 == [c EXCEPT !.recv = Tail(@)]
         IN  IF m.src = "DiskManager"
             THEN IF m.kind \in {"BlockLoaded", "BlockReserved"}
                  THEN LET c2 == ProcessDisk(c1, m.token)
                       IN  IF c2.outcome = "aborted" THEN c2 ELSE DrainRecv(c2, t)
                  ELSE Abort(c1)
             ELSE LET c2 == ProcessMessage(c1, t, m)
                  IN  IF m.kind = "PeerDisconnect"
                      THEN AdvanceDisconnect(c2, FALSE, "RemoteDisconnect")
                      ELSE DrainRecv(c2, t)

\* The Intent the engine returns in state st (wire.rs:269-274): what the reactor
\* waits for besides the deadline and wakeups.
Intent(st) ==
    CASE st.k = "ReadLength" -> [wait |-> "bytes", n |-> MESSAGE_LENGTH_LEN_BYTES]
      [] st.k = "ReadPayload" -> [wait |-> "bytes", n |-> st.len]
      [] st.k = "DiskReserve" -> [wait |-> "sleep", n |-> 0]
      [] st.k = "WritePayload" -> [wait |-> "flush", n |-> 0]

\* -------------------------------------------------------------- environment

\* What the remote peer may put on the socket: the message it means (t "Invalid"
\* for bytes that are no message), the block of a Piece, and the frame's bytes.
Frame(m, block) == [msg |-> m, block |-> block, bytes |-> Encode(m, block)]
BadFrame(bytes) == [msg |-> Msg("Invalid", 0, 0, 0, <<>>), block |-> <<>>, bytes |-> bytes]
ValidFrames ==
    { Frame(KeepAliveMsg, <<>>), Frame(ChokeMsg, <<>>), Frame(HaveMsg(258), <<>>),
      Frame(PieceMsg(1, 0, 2), <<7, 9>>) }
InvalidFrames ==
    { BadFrame(BE4(1) \o <<15>>),           \* an unknown message id
      BadFrame(BE4(3) \o <<4, 0, 0>>),      \* a Have whose payload is truncated
      Frame(ExtensionMsg, <<>>) }           \* the reserved Extension message
PeerFrames == ValidFrames \cup InvalidFrames

\* What the selector may send through its SplitSender.
SelMenu ==
    { SelKind("PeerChoke", ChokeMsg), SelKind("PeerHave", HaveMsg(3)),
      SelKind("PeerPiece", PieceMsg(0, 0, 2)), SelKind("PeerDisconnect", KeepAliveMsg) }
FlowMenu == { SelKind("PeerChoke", ChokeMsg), SelKind("PeerKeepAlive", KeepAliveMsg) }

\* Protocol::create and WireProtocol::new at time 0 (wire.rs:77-100, 327-341).
ConnInit ==
    /\ state = ReadLength
    /\ write_queue = <<>>
    /\ block_queue = <<>>
    /\ last_sent = 0
    /\ last_recvd = 0
    /\ recv = <<>>
    /\ unacked = 0
    /\ in_buffer = <<>>
    /\ out_buffer = <<>>
    /\ deadline = SelfTimeout(0)
    /\ next_token = 0
    /\ blocks = <<>>
    /\ sel_out = <<>>
    /\ disk_out = <<>>
    /\ outcome = "live"
    /\ error = "None"
    /\ consumed = 0
    /\ now = 0
    /\ peer_sent = <<>>
    /\ wire_out = <<>>
    /\ answered = {}
    /\ sel_sent = 0
    /\ sel_log = <<>>
    /\ recv_time = 0

\* The disk side before any torrent is added.
StoreIdle ==
    /\ info = [files |-> <<>>, piece_length |-> 1, pieces |-> <<>>]
    /\ fs = <<>>
    /\ checker_state = [new_states |-> <<>>, old_states |-> {}, pending_blocks |-> <<>>,
                        total_blocks |-> 0, last_block_size |-> 0]
    /\ phase = "idle"
    /\ msg = [piece_index |-> 0, block_offset |-> 0, block_length |-> 0]
    /\ buf = <<>>
    /\ out = <<>>
    /\ io = <<>>
    /\ result = "None"
    /\ fs0 = <<>>
    /\ reported = {}
    /\ last_op = "none"
    /\ adds = 0
    /\ size_check = <<>>

\* One connection, no torrent on the disk side.
Init == ConnInit /\ StoreIdle

\* The reactor clock advances.
Tick ==
    /\ outcome = "live"
    /\ now + TimeUnit <= MaxNow
    /\ now' = now + TimeUnit
    /\ UNCHANGED <<conn_vars, peer_sent, wire_out, answered, sel_sent, sel_log, recv_time, store_vars>>

\* The remote peer sends one frame and the transport reads it into the input
\* buffer.
PeerSendUpTo(budget) ==
    /\ outcome = "live"
    /\ Len(peer_sent) + sel_sent < budget
    /\ \E f \in PeerFrames :
          /\ Install([Conn EXCEPT !.in_buffer = @ \o f.bytes])
          /\ peer_sent' = Append(peer_sent, f)
    /\ UNCHANGED <<now, wire_out, answered, sel_sent, sel_log, recv_time, store_vars>>

\* The selector calls try_send on its clone of the SplitSender.
SelectorTrySend(menu, budget) ==
    /\ outcome = "live"
    /\ Len(peer_sent) + sel_sent < budget
    /\ \E sk \in menu :
          /\ Install(TrySend(Conn, sk))
          /\ sel_log' = IF TrySend(Conn, sk) = Conn THEN sel_log ELSE Append(sel_log, sk)
    /\ sel_sent' = sel_sent + 1
    /\ UNCHANGED <<now, peer_sent, wire_out, answered, recv_time, store_vars>>

PeerSend == PeerSendUpTo(MaxInputs)
SelectorSend == SelectorTrySend(SelMenu, MaxInputs)
WirePeerSend == PeerSendUpTo(MaxWireInputs)
WireSelectorSend == SelectorTrySend(SelMenu, MaxWireInputs)
FlowSelectorSend == SelectorTrySend(FlowMenu, MaxFlowMsgs)

\* The disk manager answers a LoadBlock with BlockLoaded and a ReserveBlock
\* with BlockReserved, once each, through the connection's ProtocolSender.
DiskRespond ==
    /\ outcome = "live"
    /\ Len(recv) < MAX_INCOMING_MESSAGES + 1
    /\ \E i \in 1..Len(disk_out) :
          LET req == disk_out[i]
          IN  /\ req.kind \in {"LoadBlock", "ReserveBlock"}
              /\ req.token \notin answered
              /\ Install([Conn EXCEPT !.recv = Append(@,
                    FromDisk(IF req.kind = "LoadBlock" THEN "BlockLoaded" ELSE "BlockReserved",
                             req.token))])
              /\ answered' = answered \cup {req.token}
    /\ UNCHANGED <<now, peer_sent, wire_out, sel_sent, sel_log, recv_time, store_vars>>

\* The disk manager answers a ReserveBlock with the other ODiskMessage its
\* ProtocolSender can carry for a token, BlockLoaded.
DiskRespondLoaded ==
    /\ outcome = "live"
    /\ Len(recv) < MAX_INCOMING_MESSAGES + 1
    /\ \E i \in 1..Len(disk_out) :
          LET req == disk_out[i]
          IN  /\ req.kind = "ReserveBlock"
              /\ req.token \notin answered
              /\ Install([Conn EXCEPT !.recv = Append(@, FromDisk("BlockLoaded", req.token))])
              /\ answered' = answered \cup {req.token}
    /\ UNCHANGED <<now, peer_sent, wire_out, sel_sent, sel_log, recv_time, store_vars>>

\* The remote peer sends a Piece and nothing else.
ChannelPeerSend ==
    /\ outcome = "live"
    /\ peer_sent = <<>>
    /\ LET f == Frame(PieceMsg(1, 0, 2), <<7, 9>>)
       IN  /\ Install([Conn EXCEPT !.in_buffer = @ \o f.bytes])
           /\ peer_sent' = Append(peer_sent, f)
    /\ UNCHANGED <<now, wire_out, answered, sel_sent, sel_log, recv_time, store_vars>>

\* The selector sends Choke messages, written as they are, and up to
\* MaxChannelPieces Piece messages, which go by the disk.
ChannelMenu ==
    { SelKind("PeerChoke", ChokeMsg) } \cup
    (IF Cardinality({ i \in 1..Len(sel_log) : sel_log[i].kind = "PeerPiece" }) < MaxChannelPieces
     THEN { SelKind("PeerPiece", PieceMsg(0, 0, 2)) }
     ELSE {})
ChannelSelectorSend == SelectorTrySend(ChannelMenu, MaxChannelMsgs)

\* ---------------------------------------------------------------- callbacks

\* wire.rs:343-354
BytesReadHandler(c, t, res) ==
    IF PeerTimeout(c, t)
    THEN AdvanceDisconnect(c, TRUE, "RemoteTimeout")
    ELSE AdvanceRead(c, t, res)

\* wire.rs:356-365
BytesFlushedHandler(c, t) ==
    IF PeerTimeout(c, t)
    THEN AdvanceDisconnect(c, TRUE, "RemoteTimeout")
    ELSE AdvanceWrite(c, t, TRUE)

\* timeout putting its KeepAlive into the inbound channel through the plain
\* ProtocolSender, which takes no credit, instead of the SplitSender.
TimeoutHandler_RawSend(c, t) ==
    IF PeerTimeout(c, t)
    THEN AdvanceDisconnect(c, TRUE, "RemoteTimeout")
    ELSE AdvanceWrite([c EXCEPT !.recv =
                          Append(@, FromSelector(SelKind("PeerKeepAlive", KeepAliveMsg)))],
                      t, FALSE)

\* wire.rs:367-383
TimeoutHandler(c, t) ==
    IF PeerTimeout(c, t)
    THEN AdvanceDisconnect(c, TRUE, "RemoteTimeout")
    ELSE AdvanceWrite(TrySend(c, SelKind("PeerKeepAlive", KeepAliveMsg)), t, FALSE)

\* wire.rs:398-427
WakeupHandler(c, t) ==
    IF PeerTimeout(c, t)
    THEN AdvanceDisconnect(c, TRUE, "RemoteTimeout")
    ELSE DrainRecv(c, t)

\* wire.rs:385-389
ExceptionHandler(c) == AdvanceDisconnect(c, TRUE, "RemoteDisconnect")

\* wire.rs:391-396
FatalHandler(c) == AdvanceDisconnect(c, TRUE, "RemoteError")

\* The reactor calls bytes_read when the bytes the Intent expects are buffered.
BytesRead ==
    /\ outcome = "live"
    /\ Intent(state).wait = "bytes"
    /\ Len(in_buffer) >= Intent(state).n
    /\ \E res \in FromBytes(SubSeq(in_buffer, 1, Intent(state).n)) :
          Install(BytesReadHandler(Conn, now, res))
    /\ recv_time' = IF outcome' = "live" THEN now ELSE recv_time
    /\ UNCHANGED <<now, peer_sent, wire_out, answered, sel_sent, sel_log, store_vars>>

\* The reactor calls bytes_flushed when the output buffer has gone to the peer.
BytesFlushed ==
    /\ outcome = "live"
    /\ Intent(state).wait = "flush"
    /\ wire_out' = wire_out \o out_buffer
    /\ Install(BytesFlushedHandler([Conn EXCEPT !.out_buffer = <<>>], now))
    /\ UNCHANGED <<now, peer_sent, answered, sel_sent, sel_log, recv_time, store_vars>>

\* The reactor calls timeout when the Intent's deadline has passed.
Timeout ==
    /\ outcome = "live"
    /\ now >= deadline
    /\ Install(TimeoutHandler(Conn, now))
    /\ UNCHANGED <<now, peer_sent, wire_out, answered, sel_sent, sel_log, recv_time, store_vars>>

\* The reactor calls wakeup after a sender of the inbound channel woke the
\* connection's notifier.
Wakeup ==
    /\ outcome = "live"
    /\ recv # <<>>
    /\ Install(WakeupHandler(Conn, now))
    /\ UNCHANGED <<now, peer_sent, wire_out, answered, sel_sent, sel_log, recv_time, store_vars>>

\* The reactor calls exception when the socket fails or the peer closes it.
Exception ==
    /\ outcome = "live"
    /\ Install(ExceptionHandler(Conn))
    /\ UNCHANGED <<now, peer_sent, wire_out, answered, sel_sent, sel_log, recv_time, store_vars>>

\* The reactor calls fatal when the transport fails fatally.
Fatal ==
    /\ outcome = "live"
    /\ Install(FatalHandler(Conn))
    /\ UNCHANGED <<now, peer_sent, wire_out, answered, sel_sent, sel_log, recv_time, store_vars>>

\* The connection with its clock, peer, selector and disk manager.
Next ==
    \/ Tick
    \/ PeerSend
    \/ SelectorSend
    \/ DiskRespond
    \/ BytesRead
    \/ BytesFlushed
    \/ Timeout
    \/ Wakeup
    \/ Exception
    \/ Fatal

Spec == Init /\ [][Next]_vars

\* The connection within its first two minutes (the clock stands still, so no
\* deadline passes), with more inputs.
NextWire ==
    \/ WirePeerSend
    \/ WireSelectorSend
    \/ DiskRespond
    \/ BytesRead
    \/ BytesFlushed
    \/ Wakeup

SpecWire == Init /\ [][NextWire]_vars

\* The selector's flow of messages to a peer that sends nothing.
NextFlow ==
    \/ FlowSelectorSend
    \/ BytesFlushed
    \/ Wakeup

SpecFlow == Init /\ [][NextFlow]_vars

\* The disk manager answers its requests of one kind in the order it got them:
\* the oldest unanswered LoadBlock with BlockLoaded, or the oldest unanswered
\* ReserveBlock with BlockReserved.
ChannelDiskRespond ==
    /\ outcome = "live"
    /\ Len(recv) < MAX_INCOMING_MESSAGES + 1
    /\ \E kind \in {"LoadBlock", "ReserveBlock"} :
          LET open == { i \in 1..Len(disk_out) :
                          disk_out[i].kind = kind /\ disk_out[i].token \notin answered }
          IN  /\ open # {}
              /\ LET req == disk_out[CHOOSE i \in open : \A j \in open : i <= j]
                 IN  /\ Install([Conn EXCEPT !.recv = Append(@,
                           FromDisk(IF kind = "LoadBlock" THEN "BlockLoaded" ELSE "BlockReserved",
                                    req.token))])
                     /\ answered' = answered \cup {req.token}
    /\ UNCHANGED <<now, peer_sent, wire_out, sel_sent, sel_log, recv_time, store_vars>>

\* The inbound channel under load within the first write deadline: the
\* selector's messages and the disk manager's answers, to the selector's Piece
\* and to the reservation of the peer's Piece.
NextChannel ==
    \/ ChannelPeerSend
    \/ ChannelSelectorSend
    \/ ChannelDiskRespond
    \/ BytesRead
    \/ BytesFlushed
    \/ Wakeup

SpecChannel == Init /\ [][NextChannel]_vars

\* The connection with a disk manager that may answer a reservation with
\* BlockLoaded.
NextDiskFault ==
    \/ PeerSend
    \/ SelectorSend
    \/ DiskRespond
    \/ DiskRespondLoaded
    \/ BytesRead
    \/ BytesFlushed
    \/ Wakeup

SpecDiskFault == Init /\ [][NextDiskFault]_vars

\* ------------------------------------------------------------------- claims

\* The selector's messages still in the inbound channel.
SelectorInRecv == { i \in 1..Len(recv) : recv[i].src = "PieceManager" }

\* A step of one of the four callbacks that check the peer timeout first.
TimedCallback == BytesRead \/ BytesFlushed \/ Timeout \/ Wakeup

\* The messages of kind k sent to the disk manager, in order, and the tokens
\* of a sequence of messages.
DiskOf(k) == SelectSeq(disk_out, LAMBDA d : d.kind = k)
TokensOf(seq) == { seq[i].token : i \in 1..Len(seq) }
DistinctTokens(seq) == \A i, j \in 1..Len(seq) : i # j => seq[i].token # seq[j].token

\* The disk manager's answer of kind k for token t has been taken from the
\* inbound channel by wakeup.
Received(k, t) ==
    /\ t \in answered
    /\ \A i \in 1..Len(recv) : ~(recv[i].src = "DiskManager" /\ recv[i].token = t)
    /\ \E i \in 1..Len(disk_out) :
          /\ disk_out[i].token = t
          /\ disk_out[i].kind = (IF k = "BlockLoaded" THEN "LoadBlock" ELSE "ReserveBlock")

\* The bytes of a sequence of frames one after the other, and their number.
RECURSIVE Stream(_)
Stream(frames) == IF frames = <<>> THEN <<>> ELSE Head(frames).bytes \o Stream(Tail(frames))
StreamLen(frames) == Len(Stream(frames))
Drop(seq, n) == SubSeq(seq, n + 1, Len(seq))

\* The number of bytes before the (k+1)-th frame the peer sent.
Boundary(k) == StreamLen(SubSeq(peer_sent, 1, k))

\* The kind of message the selector is owed for a message of the peer.
OwedKind(m) ==
    CASE m.t = "Choke" -> "PeerChoke"
      [] m.t = "UnChoke" -> "PeerUnChoke"
      [] m.t = "Interested" -> "PeerInterested"
      [] m.t = "UnInterested" -> "PeerUnInterested"
      [] m.t = "Have" -> "PeerHave"
      [] m.t = "BitField" -> "PeerBitField"
      [] m.t = "Request" -> "PeerRequest"
      [] m.t = "Piece" -> "PeerPiece"
      [] m.t = "Cancel" -> "PeerCancel"
      [] OTHER -> "None"

\* What the selector is owed once n bytes of the given frames are consumed: one
\* message per frame wholly consumed, none for KeepAlive, and the PeerPiece of
\* a Piece as soon as its header is consumed; nothing from the first frame on
\* that is no valid message.
RECURSIVE Owed(_, _)
Owed(frames, n) ==
    IF frames = <<>> THEN <<>>
    ELSE LET f == Head(frames)
             size == Len(f.bytes)
             rest == IF n >= size THEN Owed(Tail(frames), n - size) ELSE <<>>
         IN  IF f.msg.t = "KeepAlive" THEN rest
             ELSE IF f.msg.t = "Piece"
             THEN IF n >= size - Len(f.block)
                  THEN << [kind |-> "PeerPiece", msg |-> f.msg] >> \o rest
                  ELSE <<>>
             ELSE IF OwedKind(f.msg) # "None" /\ n >= size
             THEN << [kind |-> OwedKind(f.msg), msg |-> f.msg] >> \o rest
             ELSE <<>>

\* What the selector was sent for the peer's messages, without the tokens.
RECURSIVE Untokened(_)
Untokened(seq) ==
    IF seq = <<>> THEN <<>>
    ELSE IF Head(seq) = PeerDisconnectKind THEN Untokened(Tail(seq))
    ELSE << [kind |-> Head(seq).kind, msg |-> Head(seq).msg] >> \o Untokened(Tail(seq))

\* The state advance_write leaves when it is entered in ReadLength with
\* write_queue wq.
AfterReadLength(wq) == IF wq = <<>> THEN ReadLength ELSE WritePayload

\* C1: for the valid messages the peer sends, the selector is sent exactly one
\* message per inbound message, in socket order, none for KeepAlive; a message
\* is framed ReadLength -> ReadPayload(L + 4) without consuming the length
\* prefix, and a non-Piece message consumes exactly L + 4 bytes and puts the
\* state back to ReadLength (from where the same callback may start a write).
C1_Framing ==
    /\ in_buffer = Drop(Stream(peer_sent), consumed)
    /\ Untokened(sel_out) = Owed(peer_sent, consumed)
    /\ state.k \in {"ReadLength", "ReadPayload", "WritePayload"} =>
          \E k \in 0..Len(peer_sent) :
             /\ consumed = Boundary(k)
             /\ state.k = "ReadPayload" =>
                   (k < Len(peer_sent) /\ state.len = Len(peer_sent[k + 1].bytes))
C1_ReadSteps ==
    /\ (state.k = "ReadLength" /\ state'.k = "ReadPayload") =>
          /\ in_buffer' = in_buffer
          /\ consumed' = consumed
          /\ sel_out' = sel_out
          /\ state'.len = ParseMessageLength(in_buffer) + MESSAGE_LENGTH_LEN_BYTES
    /\ (state.k = "ReadPayload" /\ state' # state /\ state'.k # "DiskReserve") =>
          /\ consumed' = consumed + state.len
          /\ in_buffer' = Drop(in_buffer, state.len)
          /\ state' = AfterReadLength(write_queue)
          /\ Len(sel_out') <= Len(sel_out) + 1
\* C1: the framing invariant holds in every state and every read step frames
\* and consumes as stated.
C1_OneMessagePerInboundMessage == []C1_Framing /\ [][C1_ReadSteps]_vars

\* C1 witness: the peer sent three messages, a KeepAlive among them, all are
\* consumed and the selector was sent the two others.
C1_Witness ==
    /\ Len(peer_sent) = 3
    /\ \E i \in 1..3 : peer_sent[i].msg.t = "KeepAlive"
    /\ \E i \in 1..3 : peer_sent[i].msg.t = "Have"
    /\ consumed = StreamLen(peer_sent)
    /\ Len(sel_out) = 2
    /\ sel_out[1] # sel_out[2]
    /\ state = ReadLength

\* The frames of the Piece messages the peer sent, in order.
PieceFrames == SelectSeq(peer_sent, LAMBDA f : f.msg.t = "Piece")

\* C2: for every inbound Piece the engine sends exactly one ReserveBlock(t) and
\* PeerPiece(t) when the message is decoded, consuming only the header and
\* entering DiskReserve(t, block length); on BlockReserved(t) it sends exactly
\* one ProcessBlock(t), hands the disk the block's bytes, consumes exactly the
\* block and leaves DiskReserve for ReadLength (from where the same callback
\* may start a write); no ProcessBlock(t) is sent before BlockReserved(t).
C2_Reservations ==
    LET reserves == DiskOf("ReserveBlock")
        processes == DiskOf("ProcessBlock")
        pieces == SelectSeq(sel_out, LAMBDA k : k.kind = "PeerPiece")
    IN  /\ DistinctTokens(reserves) /\ DistinctTokens(processes)
        /\ Len(pieces) = Len(reserves)
        /\ \A i \in 1..Len(reserves) :
              /\ pieces[i].token = reserves[i].token
              /\ pieces[i].msg = reserves[i].msg
              /\ i <= Len(PieceFrames) /\ reserves[i].msg = PieceFrames[i].msg
        /\ \A i \in 1..Len(processes) :
              /\ i <= Len(reserves) /\ processes[i].token = reserves[i].token
              /\ Received("BlockReserved", processes[i].token)
              /\ processes[i].token \in DOMAIN blocks
              /\ blocks[processes[i].token] = PieceFrames[i].block
        /\ Len(reserves) - Len(processes) \in {0, 1}
        /\ state.k = "DiskReserve" <=> Len(reserves) = Len(processes) + 1
        /\ state.k = "DiskReserve" =>
              /\ state.token = reserves[Len(reserves)].token
              /\ state.len = Len(PieceFrames[Len(reserves)].block)
              /\ Len(in_buffer) >= state.len
C2_ReserveSteps ==
    /\ (state.k = "ReadPayload" /\ state'.k = "DiskReserve") =>
          /\ consumed' = consumed + (state.len - state'.len)
          /\ Len(disk_out') = Len(disk_out) + 1
          /\ disk_out'[Len(disk_out')].kind = "ReserveBlock"
          /\ disk_out'[Len(disk_out')].token = state'.token
          /\ Len(sel_out') = Len(sel_out) + 1
    /\ (state.k = "DiskReserve" /\ state' # state) =>
          /\ consumed' = consumed + state.len
          /\ in_buffer' = Drop(in_buffer, state.len)
          /\ \E i \in 1..Len(recv) : recv[i] = FromDisk("BlockReserved", state.token)
          /\ state' \in {ReadLength, WritePayload}
          /\ Len(DiskOf("ProcessBlock")') = Len(DiskOf("ProcessBlock")) + 1
\* C2: the reservation invariant holds in every state and every step into and
\* out of DiskReserve consumes and sends as stated.
C2_InboundPieceReserveThenProcess == []C2_Reservations /\ [][C2_ReserveSteps]_vars

\* C2 witness: the block of an inbound Piece went to the disk manager after its
\* BlockReserved, and the connection reads the next length.
C2_Witness ==
    /\ Len(DiskOf("ProcessBlock")) = 1
    /\ blocks[DiskOf("ProcessBlock")[1].token] = <<7, 9>>
    /\ state = ReadLength
    /\ consumed = StreamLen(peer_sent)
    /\ Len(peer_sent) = 2

\* The outbound messages written or waiting to be written, oldest first.
Outbound == wire_out \o out_buffer \o write_queue

\* C3: for every PeerPiece the engine takes from the selector it draws a new
\* token t and sends exactly one LoadBlock(t); the message stays in
\* block_queue, and out of write_queue, until BlockLoaded(t) is received, and
\* is then in write_queue with Some(t) until written; exactly one
\* ReclaimBlock(t) is sent, when the message is written out, never before
\* BlockLoaded(t).
C3_OutboundPieceLoadThenReclaim ==
    LET loads == DiskOf("LoadBlock")
        reclaims == DiskOf("ReclaimBlock")
        asked == SelectSeq(sel_log, LAMBDA k : k.kind = "PeerPiece")
        waiting == { i \in SelectorInRecv : recv[i].kind = "PeerPiece" }
        tokened == SelectSeq(Outbound, LAMBDA e : e.token # NoToken)
        written == SelectSeq(wire_out \o out_buffer, LAMBDA e : e.token # NoToken)
    IN  /\ DistinctTokens(loads) /\ DistinctTokens(reclaims) /\ DistinctTokens(tokened)
        /\ Len(loads) + Cardinality(waiting) = Len(asked)
        /\ \A i \in 1..Len(loads) : loads[i].msg = asked[i].msg
        /\ TokensOf(loads) \cap TokensOf(DiskOf("ReserveBlock")) = {}
        /\ DOMAIN block_queue = { t \in TokensOf(loads) : ~Received("BlockLoaded", t) }
        /\ \A i \in 1..Len(loads) :
              loads[i].token \in DOMAIN block_queue =>
                 block_queue[loads[i].token] = loads[i].msg
        /\ TokensOf(tokened) = { t \in TokensOf(loads) : Received("BlockLoaded", t) }
        /\ \A i \in 1..Len(tokened) : \E j \in 1..Len(loads) :
              loads[j].token = tokened[i].token /\ loads[j].msg = tokened[i].msg
        /\ TokensOf(reclaims) = TokensOf(written)

\* C3 witness: one outbound Piece was loaded, written and reclaimed while
\* another still waits in block_queue for its block.
C3_Witness ==
    /\ Len(DiskOf("ReclaimBlock")) = 1
    /\ \E i \in 1..Len(wire_out) : wire_out[i].token = DiskOf("ReclaimBlock")[1].token
    /\ Cardinality(DOMAIN block_queue) = 1
    /\ Len(DiskOf("LoadBlock")) = 2

\* The messages the selector sent that no flush has acked: in the inbound
\* channel, in block_queue, in write_queue or written and not yet flushed.
InFlight ==
    Cardinality(SelectorInRecv) + Cardinality(DOMAIN block_queue)
        + Len(write_queue) + Len(out_buffer)

\* C4: at most MAX_INCOMING_MESSAGES = 8 messages sent through the SplitSender
\* are unacked (not credited back by a flush) at any time, and a try_send with
\* no credit left enqueues nothing.
C4_Credit ==
    outcome = "live" => (InFlight = unacked /\ InFlight <= MAX_INCOMING_MESSAGES)
C4_NoCreditNoEnqueue ==
    (unacked = MAX_INCOMING_MESSAGES /\ sel_sent' = sel_sent + 1) =>
        (recv' = recv /\ sel_log' = sel_log /\ unacked' = unacked)
\* C4: the credit invariant holds in every state and a try_send without credit
\* enqueues nothing.
C4_AtMostEightUnacked == []C4_Credit /\ [][C4_NoCreditNoEnqueue]_vars

\* C4 witness: all eight credits are out after a flush gave one back, and a
\* try_send of the selector was turned down.
C4_Witness ==
    /\ unacked = MAX_INCOMING_MESSAGES
    /\ InFlight = MAX_INCOMING_MESSAGES
    /\ wire_out # <<>>
    /\ sel_sent > Len(sel_log)

\* A step that writes a message to the output buffer.
WriteStarts == Len(wire_out') + Len(out_buffer') > Len(wire_out) + Len(out_buffer)

\* C8: half duplex. A message leaves write_queue for the output buffer only in
\* state ReadLength: in a callback entered in ReadLength, or one that has just
\* come back to it (the flush of the previous write, the last byte of an
\* inbound message, the disk reservation of an inbound block); never while a
\* payload is read, a reservation awaited or a write unflushed. So at most one
\* written message is unflushed at any moment, whichever callback runs.
C8_OneUnflushed ==
    /\ Len(out_buffer) <= 1
    /\ outcome = "live" => (out_buffer # <<>> <=> state = WritePayload)
C8_WriteSteps ==
    WriteStarts =>
        /\ state' = WritePayload
        /\ Len(wire_out') + Len(out_buffer') = Len(wire_out) + Len(out_buffer) + 1
        /\ \/ state = ReadLength
           \/ state = WritePayload /\ BytesFlushed
           \/ state.k = "ReadPayload" /\ BytesRead /\ consumed' = consumed + state.len
           \/ /\ state.k = "DiskReserve" /\ Wakeup /\ consumed' = consumed + state.len
              /\ \E i \in 1..Len(recv) : recv[i] = FromDisk("BlockReserved", state.token)
\* C8: at most one write is unflushed in every state and every write starts
\* from ReadLength.
C8_HalfDuplex == []C8_OneUnflushed /\ [][C8_WriteSteps]_vars

\* C8 witness: a wakeup queued a message of the selector while the payload of
\* an inbound message is awaited, and nothing is written.
C8_Witness ==
    /\ state.k = "ReadPayload"
    /\ write_queue # <<>>
    /\ out_buffer = <<>>
    /\ wire_out = <<>>
    /\ outcome = "live"

\* C5: bytes_read, bytes_flushed, timeout and wakeup check the peer timeout
\* first. Called at now > last_recvd + 2 minutes, the callback parses and
\* consumes no input, drains nothing from the inbound channel, acks no credit,
\* writes nothing, sends nothing to the disk manager, and only emits
\* PeerDisconnect and ends with RemoteTimeout; called at
\* now <= last_recvd + 2 minutes it does not end with RemoteTimeout.
C5_PeerTimeoutCheckedFirst ==
    [][ TimedCallback =>
          IF now > last_recvd + MAX_PEER_TIMEOUT_MILLIS
          THEN /\ outcome' = "disconnected"
               /\ error' = "RemoteTimeout"
               /\ sel_out' = Append(sel_out, PeerDisconnectKind)
               /\ in_buffer' = in_buffer
               /\ consumed' = consumed
               /\ recv' = recv
               /\ unacked' = unacked
               /\ out_buffer' = <<>> \/ out_buffer' = out_buffer
               /\ UNCHANGED <<state, write_queue, block_queue, disk_out, blocks,
                              next_token, last_sent, deadline>>
          ELSE error' # "RemoteTimeout" ]_vars

\* C5 witness: a callback found the peer timed out and left buffered input and
\* queued channel messages untouched.
C5_Witness ==
    /\ error = "RemoteTimeout"
    /\ in_buffer # <<>>
    /\ recv # <<>>
    /\ sel_out # <<>> /\ sel_out[Len(sel_out)] = PeerDisconnectKind

\* C6: the peer timeout is measured from the last receive (the latest
\* bytes_read callback, the creation if there was none): a connection ends
\* with RemoteTimeout only when no bytes arrived from the peer during the
\* preceding 2 minutes.
C6_TimeoutOnlyAfterSilence ==
    error = "RemoteTimeout" => now > recv_time + MAX_PEER_TIMEOUT_MILLIS

\* C7: the keep-alive deadline is 90 seconds after the last send, whatever
\* callbacks ran in between: while the connection lives, has credit and has no
\* KeepAlive under way, the deadline at which timeout enqueues the KeepAlive
\* is never later than last_sent + 90 seconds.
C7_KeepAliveDeadlineFromLastSend ==
    ( /\ outcome = "live"
      /\ unacked < MAX_INCOMING_MESSAGES
      /\ \A i \in 1..Len(recv) : recv[i].kind # "PeerKeepAlive" )
    => deadline <= last_sent + MAX_SELF_TIMEOUT_MILLIS

\* C9: every disconnect that the selector did not ask for (RemoteTimeout in a
\* callback, InvalidMessage on a decode error, RemoteDisconnect on an
\* exception, RemoteError on a fatal error) sends exactly one PeerDisconnect to
\* the selector, as its last message, and ends with that error kind; the
\* disconnect for the selector's own PeerDisconnect, found by wakeup in the
\* inbound channel, sends the selector nothing and ends with RemoteDisconnect.
C9_DisconnectNotifiesSelector ==
    [][ (outcome = "live" /\ outcome' = "disconnected") =>
          LET timed_out == now > last_recvd + MAX_PEER_TIMEOUT_MILLIS
              notified == sel_out' = Append(sel_out, PeerDisconnectKind)
          IN  /\ Exception => (notified /\ error' = "RemoteDisconnect")
              /\ Fatal => (notified /\ error' = "RemoteError")
              /\ (TimedCallback /\ timed_out) => (notified /\ error' = "RemoteTimeout")
              /\ (BytesRead /\ ~timed_out) => (notified /\ error' = "InvalidMessage")
              /\ (Wakeup /\ ~timed_out) =>
                    /\ \E i \in SelectorInRecv : recv[i].kind = "PeerDisconnect"
                    /\ sel_out' = sel_out
                    /\ error' = "RemoteDisconnect"
              /\ (Exception \/ Fatal \/ TimedCallback) ]_vars

\* C9 witness: the selector's PeerDisconnect ended the connection, and the
\* selector was sent no PeerDisconnect, although the peer had been heard.
C9_Witness ==
    /\ outcome = "disconnected"
    /\ error = "RemoteDisconnect"
    /\ \E i \in 1..Len(sel_log) : sel_log[i].kind = "PeerDisconnect"
    /\ sel_out # <<>>
    /\ \A i \in 1..Len(sel_out) : sel_out[i] # PeerDisconnectKind

\* C10: no input of the remote peer aborts the engine: whatever the peer
\* sends, the engine emits to the selector or disconnects the peer, and never
\* panics.
C10_PeerInputNeverAborts == outcome # "aborted"

\* What a wakeup that drains the inbound channel rc, with the outbound Pieces
\* bq awaiting their blocks, is to put at the back of write_queue: the
\* selector's non-Piece messages and the Pieces whose BlockLoaded is in rc, in
\* the order of rc, up to the selector's PeerDisconnect.
RECURSIVE Entering(_, _)
Entering(rc, bq) ==
    IF rc = <<>> THEN <<>>
    ELSE LET m == Head(rc)
             rest == Entering(Tail(rc), bq)
         IN  IF m.src = "DiskManager"
             THEN IF m.token \in DOMAIN bq
                  THEN << [msg |-> bq[m.token], token |-> m.token] >> \o rest
                  ELSE rest
             ELSE IF m.kind = "PeerDisconnect" THEN <<>>
             ELSE IF m.kind = "PeerPiece" THEN rest
             ELSE << [msg |-> m.msg, token |-> NoToken] >> \o rest

\* The messages of a sequence of entries or of selector messages.
MsgsOf(seq) == [i \in 1..Len(seq) |-> seq[i].msg]

\* C11 (first part): the selector's non-Piece messages that were written or
\* wait in write_queue, followed by those still in the inbound channel, are
\* the non-Piece messages the selector sent, in the order it sent them.
C11_SelectorOrder ==
    LET plain(k) == k.kind \notin {"PeerPiece", "PeerDisconnect"}
        written == SelectSeq(Outbound, LAMBDA e : e.token = NoToken)
        waiting == SelectSeq(recv, LAMBDA m : m.src = "PieceManager" /\ plain(m))
        asked == SelectSeq(sel_log, plain)
    IN  MsgsOf(written) \o MsgsOf(waiting) = MsgsOf(asked)

\* C11 (second part): in every step the messages written or queued stay in
\* their order, a write taking the front of write_queue, and what enters
\* write_queue enters at its back, in a wakeup, in the order of the inbound
\* channel (for a Piece: the order of the BlockLoaded answers).
C11_Fifo ==
    /\ Len(Outbound') >= Len(Outbound)
    /\ SubSeq(Outbound', 1, Len(Outbound)) = Outbound
    /\ Len(Outbound') > Len(Outbound) =>
          /\ Wakeup
          /\ Drop(Outbound', Len(Outbound)) = Entering(recv, block_queue)

\* C11: outbound messages are written in the order they entered write_queue;
\* non-Piece messages enter it in the order the selector sent them and Piece
\* messages in the order their BlockLoaded answers arrive.
C11_OutboundFifo == []C11_SelectorOrder /\ [][C11_Fifo]_vars

\* C11 witness: two outbound Pieces were written in the opposite order to the
\* one the selector sent them in (tokens are drawn in the selector's order).
C11_Witness ==
    \E i, j \in 1..Len(wire_out) :
        /\ i < j
        /\ wire_out[j].token # NoToken
        /\ wire_out[i].token > wire_out[j].token

\* ------------------------------------ PieceCheckerState (piece_checker.rs)

\* PieceMessage::new(piece_index, block_offset, block_length)
PieceMessage(i, o, l) == [piece_index |-> i, block_offset |-> o, block_length |-> l]

\* PieceState (piece_checker.rs:160-166)
Good(i) == [good |-> TRUE, index |-> i]
Bad(i) == [good |-> FALSE, index |-> i]

\* PieceCheckerState::new (piece_checker.rs:170-178)
NewCheckerState(total_blocks, last_block_size) ==
    [new_states |-> <<>>, old_states |-> {}, pending_blocks |-> <<>>,
     total_blocks |-> total_blocks, last_block_size |-> last_block_size]

\* add_pending_block (piece_checker.rs:181-183)
AddPendingBlockTo(cs, m) ==
    LET pb == cs.pending_blocks
        old == IF m.piece_index \in DOMAIN pb THEN pb[m.piece_index] ELSE <<>>
    IN  [cs EXCEPT !.pending_blocks =
            [k \in DOMAIN pb \cup {m.piece_index} |->
                IF k = m.piece_index THEN Append(old, m) ELSE pb[k]]]

\* The body of the loop of run_with_diff remembering Good states only.
DrainOne_GoodOnly(cs, piece_state) ==
    [cs EXCEPT !.new_states = Tail(@),
               !.old_states = IF piece_state.good THEN @ \cup {piece_state} ELSE @]

\* The body of the loop of run_with_diff after the callback
\* (piece_checker.rs:189-193): the drained state goes to old_states.
DrainOne(cs, piece_state) ==
    [cs EXCEPT !.new_states = Tail(@), !.old_states = @ \cup {piece_state}]

\* The loop of run_with_diff (piece_checker.rs:189-193): called lists the
\* states given to the callback.
RECURSIVE RunWithDiffLoop(_, _)
RunWithDiffLoop(cs, called) ==
    IF cs.new_states = <<>> THEN [cs |-> cs, called |-> called]
    ELSE LET piece_state == Head(cs.new_states)
         IN  RunWithDiffLoop(DrainOne(cs, piece_state), Append(called, piece_state))

\* run_with_diff (piece_checker.rs:187-194): every drained state goes to
\* old_states.
RunWithDiffOn(cs) == RunWithDiffLoop(cs, <<>>).cs

\* cmp::max
Max(a, b) == IF a >= b THEN a ELSE b
\* cmp::min
Min(a, b) == IF a <= b THEN a ELSE b

\* merge_piece_messages ending the merged message where the later message
\* ends, instead of at the larger of the two ends.
MergePieceMessages_EndOfLater(message_a, message_b) ==
    LET start_a == message_a.block_offset
        end_a == start_a + message_a.block_length
        start_b == message_b.block_offset
        end_b == start_b + message_b.block_length
    IN  IF start_b >= start_a /\ start_b <= end_a
        THEN << PieceMessage(message_a.piece_index, start_a, end_b - start_a) >>
        ELSE IF start_a >= start_b /\ start_a <= end_b
        THEN << PieceMessage(message_b.piece_index, start_b, end_a - start_b) >>
        ELSE <<>>

\* merge_piece_messages (piece_checker.rs:273-296): Some(merged) as <<merged>>,
\* None as <<>>.
MergePieceMessages(message_a, message_b) ==
    LET start_a == message_a.block_offset
        end_a == start_a + message_a.block_length
        start_b == message_b.block_offset
        end_b == start_b + message_b.block_length
    IN  IF start_b >= start_a /\ start_b <= end_a
        THEN << PieceMessage(message_a.piece_index, start_a, Max(end_a, end_b) - start_a) >>
        ELSE IF start_a >= start_b /\ start_a <= end_b
        THEN << PieceMessage(message_b.piece_index, start_b, Max(end_a, end_b) - start_b) >>
        ELSE <<>>

\* messages.sort_by(block_offset) (piece_checker.rs:229): a stable sort.
RECURSIVE InsertByOffset(_, _)
InsertByOffset(sorted, m) ==
    IF sorted = <<>> THEN <<m>>
    ELSE IF Head(sorted).block_offset <= m.block_offset
    THEN <<Head(sorted)>> \o InsertByOffset(Tail(sorted), m)
    ELSE <<m>> \o sorted
RECURSIVE SortByOffset(_)
SortByOffset(messages) ==
    IF messages = <<>> THEN <<>>
    ELSE InsertByOffset(SortByOffset(SubSeq(messages, 1, Len(messages) - 1)),
                        messages[Len(messages)])

\* The merge loop with if for while: at most one merge for each call.
MergeTail_Once(messages) ==
    IF Len(messages) <= 1 THEN messages
    ELSE LET n == Len(messages)
             opt_merged == MergePieceMessages(messages[n - 1], messages[n])
         IN  IF opt_merged # <<>> THEN SubSeq(messages, 1, n - 2) \o opt_merged
             ELSE messages

\* The loop of merge_pieces (piece_checker.rs:231-249): merge the last two
\* messages until that fails or one message is left.
RECURSIVE MergeTail(_)
MergeTail(messages) ==
    IF Len(messages) <= 1 THEN messages
    ELSE LET n == Len(messages)
             opt_merged == MergePieceMessages(messages[n - 1], messages[n])
         IN  IF opt_merged # <<>> THEN MergeTail(SubSeq(messages, 1, n - 2) \o opt_merged)
             ELSE messages

\* merge_pieces (piece_checker.rs:226-251)
MergePiecesOn(cs) ==
    [cs EXCEPT !.pending_blocks = [k \in DOMAIN @ |-> MergeTail(SortByOffset(@[k]))]]

\* piece_is_complete (piece_checker.rs:255-268)
PieceIsComplete(total_blocks, last_block_size, piece_length, messages) ==
    LET is_single_message == Len(messages) = 1
        is_piece_length == messages # <<>> /\ messages[1].block_length = piece_length
        is_last_block == messages # <<>> /\ messages[1].piece_index = total_blocks - 1
        is_last_block_length == messages # <<>> /\ messages[1].block_length = last_block_size
    IN  is_single_message /\ (is_piece_length \/ (is_last_block /\ is_last_block_length))

\* The filters of run_with_whole_pieces, the second one holding back the
\* pieces that old_states has as Bad as well.
Eligible_NoBad(cs, piece_length) ==
    { k \in DOMAIN cs.pending_blocks :
        /\ PieceIsComplete(cs.total_blocks, cs.last_block_size, piece_length,
                           cs.pending_blocks[k])
        /\ Good(k) \notin cs.old_states
        /\ Bad(k) \notin cs.old_states }

\* The pieces the two filters of run_with_whole_pieces let through
\* (piece_checker.rs:208-210).
Eligible(cs, piece_length) ==
    { k \in DOMAIN cs.pending_blocks :
        /\ PieceIsComplete(cs.total_blocks, cs.last_block_size, piece_length,
                           cs.pending_blocks[k])
        /\ Good(k) \notin cs.old_states }

\* The body of the loop of run_with_whole_pieces without messages.clear().
ClassifyOne_NoClear(cs, k, is_good) ==
    [cs EXCEPT !.new_states = Append(@, IF is_good THEN Good(k) ELSE Bad(k))]

\* The body of the loop of run_with_whole_pieces after the callback
\* (piece_checker.rs:213-219): push the state, clear the piece's list.
ClassifyOne(cs, k, is_good) ==
    [cs EXCEPT !.new_states = Append(@, IF is_good THEN Good(k) ELSE Bad(k)),
               !.pending_blocks[k] = <<>>]

\* The loop of run_with_whole_pieces (piece_checker.rs:208-220) over the
\* eligible pieces in the order the HashMap yields them, verdict[k] being what
\* the callback returns for piece k: "good", "bad" or "err" (try! returns).
\* r.called lists the messages given to the callback.
RECURSIVE ClassifyLoop(_, _, _)
ClassifyLoop(r, order, verdict) ==
    IF order = <<>> THEN r
    ELSE LET k == Head(order)
             called == Append(r.called, r.cs.pending_blocks[k][1])
         IN  IF verdict[k] = "err"
             THEN [cs |-> r.cs, called |-> called, ok |-> FALSE]
             ELSE ClassifyLoop([cs |-> ClassifyOne(r.cs, k, verdict[k] = "good"),
                                called |-> called, ok |-> TRUE],
                               Tail(order), verdict)

\* run_with_whole_pieces (piece_checker.rs:198-223)
RunWithWholePiecesOn(cs, piece_length, order, verdict) ==
    ClassifyLoop([cs |-> MergePiecesOn(cs), called |-> <<>>, ok |-> TRUE], order, verdict)

\* The orders in which a HashMap may yield the keys S.
Orders(S) ==
    { o \in [1..Cardinality(S) -> S] : \A i, j \in 1..Cardinality(S) : i # j => o[i] # o[j] }

\* A torrent of one 6-byte file in pieces of 4 bytes: piece 0 is whole,
\* piece 1 is the last and has 2 bytes.
CheckerInfo == [files |-> <<6>>, piece_length |-> 4, pieces |-> <<0, 0>>]

\* The blocks the disk layer may report written: adjacent, overlapping, nested,
\* apart and whole ones.
BlockMenu ==
    { PieceMessage(0, 0, 1), PieceMessage(0, 1, 1), PieceMessage(0, 3, 1),
      PieceMessage(0, 0, 2), PieceMessage(0, 2, 2), PieceMessage(0, 0, 4),
      PieceMessage(0, 1, 2), PieceMessage(1, 0, 2), PieceMessage(1, 0, 1),
      PieceMessage(1, 1, 1) }

\* A torrent of one 8-byte file in pieces of 4 bytes: both pieces are whole,
\* and last_piece_size (piece_checker.rs:131-136) is 0.
EvenInfo == [files |-> <<8>>, piece_length |-> 4, pieces |-> <<0, 0>>]

\* Blocks of EvenInfo within their pieces: whole pieces, halves of the last
\* piece, and blocks of no bytes.
EvenBlockMenu ==
    { PieceMessage(0, 0, 4), PieceMessage(1, 0, 4), PieceMessage(1, 0, 2),
      PieceMessage(1, 2, 2), PieceMessage(1, 0, 0), PieceMessage(0, 0, 0) }

\* The blocks the disk layer may report for a torrent.
BlocksOf(inf) == IF inf = EvenInfo THEN EvenBlockMenu ELSE BlockMenu

\* A PieceCheckerState for CheckerInfo, with nothing pending.
InitChecker ==
    /\ ConnInit
    /\ info = CheckerInfo
    /\ fs = <<>>
    /\ checker_state = NewCheckerState(2, 2)
    /\ phase = "checker"
    /\ msg = PieceMessage(0, 0, 0)
    /\ buf = <<>>
    /\ out = <<>>
    /\ io = <<>>
    /\ result = "None"
    /\ fs0 = <<>>
    /\ reported = {}
    /\ last_op = "none"
    /\ adds = 0
    /\ size_check = <<>>

\* The disk layer calls add_pending_block.
AddPendingBlock ==
    /\ phase = "checker"
    /\ adds < MaxAdds
    /\ \E m \in BlocksOf(info) :
          /\ checker_state' = AddPendingBlockTo(checker_state, m)
          /\ reported' = reported \ {m.piece_index}
    /\ last_op' = "add"
    /\ adds' = adds + 1
    /\ io' = <<>>
    /\ UNCHANGED <<conn_vars, env_vars, info, fs, phase, msg, buf, out, result, fs0, size_check>>

\* merge_pieces on its own.
MergePieces ==
    /\ phase = "checker"
    /\ checker_state' = MergePiecesOn(checker_state)
    /\ last_op' = "merge"
    /\ io' = <<>>
    /\ UNCHANGED <<conn_vars, env_vars, info, fs, phase, msg, buf, out, result, fs0,
                   reported, adds, size_check>>

\* run_with_whole_pieces with a callback that answers good, bad or an error.
RunWithWholePieces ==
    /\ phase = "checker"
    /\ LET merged == MergePiecesOn(checker_state)
           eligible == Eligible(merged, info.piece_length)
       IN  \E order \in Orders(eligible) : \E verdict \in [eligible -> {"good", "bad", "err"}] :
              LET r == RunWithWholePiecesOn(checker_state, info.piece_length, order, verdict)
                  pushed == SubSeq(r.cs.new_states, Len(checker_state.new_states) + 1,
                                   Len(r.cs.new_states))
              IN  /\ checker_state' = r.cs
                  /\ io' = r.called
                  /\ result' = IF r.ok THEN "Ok" ELSE "Err"
                  /\ reported' = reported \cup
                        { pushed[i].index : i \in { j \in 1..Len(pushed) : pushed[j].good } }
    /\ last_op' = "run"
    /\ UNCHANGED <<conn_vars, env_vars, info, fs, phase, msg, buf, out, fs0, adds, size_check>>

\* run_with_diff
RunWithDiff ==
    /\ phase = "checker"
    /\ checker_state.new_states # <<>>
    /\ checker_state' = RunWithDiffOn(checker_state)
    /\ last_op' = "diff"
    /\ io' = RunWithDiffLoop(checker_state, <<>>).called
    /\ UNCHANGED <<conn_vars, env_vars, info, fs, phase, msg, buf, out, result, fs0,
                   reported, adds, size_check>>

\* The PieceCheckerState under the calls of its users.
NextChecker ==
    \/ AddPendingBlock
    \/ MergePieces
    \/ RunWithWholePieces
    \/ RunWithDiff

SpecChecker == InitChecker /\ [][NextChecker]_vars

\* A PieceCheckerState for EvenInfo, with nothing pending
\* (piece_checker.rs:22-25: total_blocks 2, last_piece_size 0).
InitCheckerEven ==
    /\ ConnInit
    /\ info = EvenInfo
    /\ fs = <<>>
    /\ checker_state = NewCheckerState(2, 0)
    /\ phase = "checker"
    /\ msg = PieceMessage(0, 0, 0)
    /\ buf = <<>>
    /\ out = <<>>
    /\ io = <<>>
    /\ result = "None"
    /\ fs0 = <<>>
    /\ reported = {}
    /\ last_op = "none"
    /\ adds = 0
    /\ size_check = <<>>

SpecCheckerEven == InitCheckerEven /\ [][NextChecker]_vars

\* A list of pending blocks as C12 wants it: offsets strictly increasing and
\* no two consecutive blocks overlapping or adjacent.
Disjoint(messages) ==
    \A j \in 1..(Len(messages) - 1) :
        /\ messages[j].block_offset < messages[j + 1].block_offset
        /\ ~(messages[j].block_offset + messages[j].block_length
                >= messages[j + 1].block_offset)

\* C12: after merge_pieces every piece's list is sorted by strictly
\* increasing block_offset and no two consecutive entries a, b have
\* a.offset + a.length >= b.offset.
C12_MergedListsDisjoint ==
    last_op = "merge" =>
        \A k \in DOMAIN checker_state.pending_blocks :
            Disjoint(checker_state.pending_blocks[k])

\* C13: merge_pieces is idempotent: after a merge_pieces, another merge_pieces
\* leaves pending_blocks as it is.
C13_MergeIdempotent ==
    last_op = "merge" =>
        MergePiecesOn(checker_state).pending_blocks = checker_state.pending_blocks

\* C13 witness: of three blocks added to one piece, merge_pieces merged two
\* and left the third apart.
C13_Witness ==
    /\ last_op = "merge"
    /\ adds = 3
    /\ DOMAIN checker_state.pending_blocks = {0}
    /\ checker_state.pending_blocks[0] = << PieceMessage(0, 0, 1), PieceMessage(0, 2, 2) >>

\* C14: a piece that run_with_whole_pieces pushed as Good is not passed to the
\* callback (and so not pushed again) by a later run_with_whole_pieces unless
\* add_pending_block was called for it in between.
C14_GoodNotReportedAgain ==
    [][ RunWithWholePieces =>
          /\ \A i \in 1..Len(io') : io'[i].piece_index \notin reported
          /\ \A i \in (Len(checker_state.new_states) + 1)..Len(checker_state'.new_states) :
                checker_state'.new_states[i].index \notin reported ]_vars

\* C14 witness: a run_with_whole_pieces that gave nothing to its callback
\* although a piece pushed as Good earlier, and not added to since, is still
\* in new_states.
C14_Witness ==
    /\ last_op = "run"
    /\ io = <<>>
    /\ 0 \in reported
    /\ checker_state.new_states = << Good(0) >>
    /\ checker_state.pending_blocks[0] = <<>>

\* --------------------------------------- PieceAccessor (piece_accessor.rs)

\* FileSystem::read_file: up to n bytes of file f from offset on.
ReadFile(store, f, offset, n) ==
    SubSeq(store[f], offset + 1, Min(Len(store[f]), offset + n))

\* FileSystem::write_file: bytes into file f at offset; the file grows as
\* needed, a gap before offset reading as zeros.
WriteFile(store, f, offset, bytes) ==
    LET old == store[f]
        size == Max(Len(old), offset + Len(bytes))
    IN  [store EXCEPT ![f] =
            [j \in 1..size |->
                IF j > offset /\ j <= offset + Len(bytes) THEN bytes[j - offset]
                ELSE IF j <= Len(old) THEN old[j]
                ELSE 0]]

\* The test of piece_accessor.rs:59 without its first half.
ShouldAccess_EmptyToo(bytes_to_access, total_bytes_accessed, total_block_length) ==
    total_bytes_accessed < total_block_length

\* piece_accessor.rs:59: whether the file has a part of the block.
ShouldAccess(bytes_to_access, total_bytes_accessed, total_block_length) ==
    bytes_to_access > 0 /\ total_bytes_accessed < total_block_length

\* piece_accessor.rs:63-64: the bytes of the block in this file.
ActualBytes(total_max_bytes_to_access, bytes_to_access) ==
    Min(total_max_bytes_to_access, bytes_to_access)

\* piece_accessor.rs:65 with the offset always at the start of the file.
FileOffset_Start(total_file_size, bytes_to_access) == 0

\* piece_accessor.rs:65: where in the file the block starts or goes on.
FileOffset(total_file_size, bytes_to_access) == total_file_size - bytes_to_access

\* The loop of run_with_file_regions (piece_accessor.rs:50-71) from file i on:
\* the arguments (file, offset, begin, end) of the calls of the callback.
RECURSIVE FileRegions(_, _, _, _, _)
FileRegions(files, i, total_bytes_to_skip, total_bytes_accessed, total_block_length) ==
    IF i > Len(files) THEN <<>>
    ELSE LET total_file_size == files[i]
             min_bytes_to_skip == Min(total_bytes_to_skip, total_file_size)
             bytes_to_access == total_file_size - min_bytes_to_skip
         IN  IF ShouldAccess(bytes_to_access, total_bytes_accessed, total_block_length)
             THEN LET total_max_bytes_to_access == total_block_length - total_bytes_accessed
                      actual_bytes_to_access ==
                          ActualBytes(total_max_bytes_to_access, bytes_to_access)
                  IN  << [file |-> i,
                          offset |-> FileOffset(total_file_size, bytes_to_access),
                          begin |-> total_bytes_accessed,
                          end |-> total_bytes_accessed + actual_bytes_to_access] >>
                      \o FileRegions(files, i + 1, total_bytes_to_skip - min_bytes_to_skip,
                                     total_bytes_accessed + actual_bytes_to_access,
                                     total_block_length)
             ELSE FileRegions(files, i + 1, total_bytes_to_skip - min_bytes_to_skip,
                              total_bytes_accessed, total_block_length)

\* run_with_file_regions taking the start of the piece for the start of the
\* block (block_offset left out of piece_accessor.rs:46).
RunWithFileRegions_NoBlockOffset(inf, message) ==
    FileRegions(inf.files, 1, message.piece_index * inf.piece_length,
                0, message.block_length)

\* run_with_file_regions (piece_accessor.rs:42-74)
RunWithFileRegions(inf, message) ==
    FileRegions(inf.files, 1,
                message.piece_index * inf.piece_length + message.block_offset,
                0, message.block_length)

\* The callback of read_piece over the regions (piece_accessor.rs:23-28);
\* assert_eq! aborts on a short read.
RECURSIVE ReadRegions(_, _, _)
ReadRegions(store, regions, piece_buffer) ==
    IF regions = <<>> THEN [buffer |-> piece_buffer, ok |-> TRUE]
    ELSE LET g == Head(regions)
             bytes == ReadFile(store, g.file, g.offset, g.end - g.begin)
             filled == [j \in DOMAIN piece_buffer |->
                          IF j > g.begin /\ j <= g.begin + Len(bytes)
                          THEN bytes[j - g.begin] ELSE piece_buffer[j]]
         IN  IF Len(bytes) # g.end - g.begin
             THEN [buffer |-> filled, ok |-> FALSE]
             ELSE ReadRegions(store, Tail(regions), filled)

\* read_piece (piece_accessor.rs:22-29)
ReadPieceOn(store, inf, piece_buffer, message) ==
    ReadRegions(store, RunWithFileRegions(inf, message), piece_buffer)

\* The callback of write_piece over the regions (piece_accessor.rs:32-37).
RECURSIVE WriteRegions(_, _, _)
WriteRegions(store, regions, piece_buffer) ==
    IF regions = <<>> THEN store
    ELSE LET g == Head(regions)
         IN  WriteRegions(WriteFile(store, g.file, g.offset,
                                    SubSeq(piece_buffer, g.begin + 1, g.end)),
                          Tail(regions), piece_buffer)

\* write_piece (piece_accessor.rs:31-38)
WritePieceOn(store, inf, piece_buffer, message) ==
    WriteRegions(store, RunWithFileRegions(inf, message), piece_buffer)

\* The sum of a sequence of file lengths (info_dict.files() summed).
RECURSIVE TotalBytes(_)
TotalBytes(files) == IF files = <<>> THEN 0 ELSE Head(files) + TotalBytes(Tail(files))

\* The number of pieces of a torrent (info_dict.pieces().count()).
NumPieces(inf) == (TotalBytes(inf.files) + inf.piece_length - 1) \div inf.piece_length

\* The torrent of the spec's multi-file scenario.
ExampleInfo == [files |-> <<10, 5, 20>>, piece_length |-> 8, pieces |-> <<>>]

\* The torrents given to the PieceAccessor: every small layout, files of no
\* bytes included, in pieces of 2 or 3 bytes, and the scenario's.
AccessorInfos ==
    { [files |-> l, piece_length |-> pl, pieces |-> <<>>] :
        l \in UNION { [1..n -> 0..MaxFileSize] : n \in 1..MaxFiles }, pl \in {2, 3} }
    \cup {ExampleInfo}

\* The valid PieceMessages of a torrent: the blocks that lie within its bytes.
ValidMessages(inf) ==
    { m \in { PieceMessage(i, o, l) :
                i \in 0..(NumPieces(inf) - 1), o \in 0..(inf.piece_length - 1),
                l \in 0..MaxBlockLength } :
        m.piece_index * inf.piece_length + m.block_offset + m.block_length
            <= TotalBytes(inf.files) }

\* Files of their full size, every byte telling its file and position.
FullFiles(inf) ==
    [f \in 1..Len(inf.files) |-> [j \in 1..inf.files[f] |-> 32 * f + j]]

\* A buffer of n bytes that are in no file.
WriteBuffer(n) == [j \in 1..n |-> 200 + j]

\* A PieceAccessor over validated files, and a block to read or write.
InitAccessor ==
    /\ ConnInit
    /\ info \in AccessorInfos
    /\ fs = FullFiles(info)
    /\ checker_state = NewCheckerState(0, 0)
    /\ phase = "ready"
    /\ msg \in ValidMessages(info)
    /\ buf = <<>>
    /\ out = <<>>
    /\ io = <<>>
    /\ result = "None"
    /\ fs0 = fs
    /\ reported = {}
    /\ last_op = "none"
    /\ adds = 0
    /\ size_check = <<>>

\* read_piece into a buffer of block_length bytes.
ReadPiece ==
    /\ phase \in {"ready", "written"}
    /\ LET r == ReadPieceOn(fs, info, [j \in 1..msg.block_length |-> 0], msg)
       IN  /\ out' = r.buffer
           /\ result' = IF r.ok THEN "Ok" ELSE "Aborted"
    /\ io' = RunWithFileRegions(info, msg)
    /\ phase' = IF phase = "ready" THEN "read" ELSE "read_back"
    /\ UNCHANGED <<conn_vars, env_vars, info, fs, checker_state, msg, buf, fs0,
                   reported, last_op, adds, size_check>>

\* write_piece of a buffer of block_length bytes.
WritePiece ==
    /\ phase = "ready"
    /\ buf' = WriteBuffer(msg.block_length)
    /\ fs' = WritePieceOn(fs, info, buf', msg)
    /\ fs0' = fs
    /\ io' = RunWithFileRegions(info, msg)
    /\ result' = "Ok"
    /\ phase' = "written"
    /\ UNCHANGED <<conn_vars, env_vars, info, checker_state, msg, out,
                   reported, last_op, adds, size_check>>

\* One block read, or written and read back.
NextAccessor ==
    \/ ReadPiece
    \/ WritePiece

SpecAccessor == InitAccessor /\ [][NextAccessor]_vars

\* The first byte of file f in the concatenation of the files, the first byte
\* of the block of message m, and the bytes of file f in that block.
FileStart(inf, f) == TotalBytes(SubSeq(inf.files, 1, f - 1))
BlockStart(inf, m) == m.piece_index * inf.piece_length + m.block_offset
Overlap(inf, m, f) ==
    { b \in FileStart(inf, f)..(FileStart(inf, f) + inf.files[f] - 1) :
        b >= BlockStart(inf, m) /\ b < BlockStart(inf, m) + m.block_length }

\* C15: read_piece and write_piece call the I/O callback exactly once for each
\* file that has bytes of the block, in file order, with the in-file offset
\* where those bytes start and the buffer window [begin, end), begin being 0
\* at the first call and the previous end afterwards; a file of no bytes gets
\* no call, no call is of zero length, and the windows add up to block_length.
C15_OneCallbackPerFileOfBlock ==
    phase \in {"read", "written"} =>
        LET hit == { f \in 1..Len(info.files) : Overlap(info, msg, f) # {} }
        IN  /\ { io[j].file : j \in 1..Len(io) } = hit
            /\ Len(io) = Cardinality(hit)
            /\ \A j \in 1..Len(io) :
                  LET first == CHOOSE b \in Overlap(info, msg, io[j].file) :
                                  \A c \in Overlap(info, msg, io[j].file) : b <= c
                  IN  /\ j > 1 => io[j - 1].file < io[j].file
                      /\ io[j].offset = first - FileStart(info, io[j].file)
                      /\ io[j].begin = (IF j = 1 THEN 0 ELSE io[j - 1].end)
                      /\ io[j].end > io[j].begin
                      /\ info.files[io[j].file] > 0
            /\ (IF io = <<>> THEN 0 ELSE io[Len(io)].end) = msg.block_length

\* C15 witness: a block read from the files on both sides of a file of no
\* bytes.
C15_Witness ==
    /\ phase = "read"
    /\ Len(info.files) = 3
    /\ info.files[2] = 0
    /\ Len(io) = 2
    /\ io[1].file = 1
    /\ io[2].file = 3
    /\ io[2].end = 3

\* The bytes of the files that are not bytes of the block of msg are as they
\* were before the write, and no file changed its size.
OutsideUntouched ==
    \A f \in 1..Len(info.files) :
        /\ Len(fs[f]) = Len(fs0[f])
        /\ \A j \in 1..Len(fs[f]) :
              (FileStart(info, f) + j - 1) \notin Overlap(info, msg, f) => fs[f][j] = fs0[f][j]

\* C16: write_piece(buf, m) followed by read_piece(out, m) yields out = buf,
\* and the write changes no byte of any file outside the byte range of m.
C16_WriteReadRoundTrip ==
    /\ phase = "read_back" => (out = buf /\ result = "Ok")
    /\ phase \in {"written", "read_back"} => OutsideUntouched

\* C16 witness: a block of three bytes or more, lying in two files or more and
\* not covering them, was written and read back.
C16_Witness ==
    /\ phase = "read_back"
    /\ Len(io) >= 2
    /\ Len(buf) >= 3
    /\ out = buf
    /\ fs # fs0
    /\ \E f \in 1..Len(fs) : \E j \in 1..Len(fs[f]) : fs[f][j] = fs0[f][j]

\* The read of the spec's multi-file scenario: files of 10, 5 and 20 bytes,
\* piece_length 8, read_piece of (piece_index 1, block_offset 2, block_length 10).
ExampleRead ==
    /\ phase = "read"
    /\ info = ExampleInfo
    /\ msg = PieceMessage(1, 2, 10)

\* C17 as stated: the read calls the callback three times, for 10 bytes: on
\* the first file at file offset 4, on the second at 0 and on the third at 0.
C17_ThreeCallbacks ==
    ExampleRead =>
        /\ Len(io) = 3
        /\ io[1].file = 1 /\ io[1].offset = 4
        /\ io[2].file = 2 /\ io[2].offset = 0
        /\ io[3].file = 3 /\ io[3].offset = 0
        /\ io[3].end = 10

\* C17 as amended: the block starts at byte 1 * 8 + 2 = 10, the first byte of
\* the second file, so the read calls the callback twice, for 10 bytes: on
\* the second file at file offset 0 for its 5 bytes and on the third file at
\* file offset 0 for 5 bytes.
C17_TwoCallbacks ==
    ExampleRead =>
        /\ Len(io) = 2
        /\ io[1] = [file |-> 2, offset |-> 0, begin |-> 0, end |-> 5]
        /\ io[2] = [file |-> 3, offset |-> 0, begin |-> 5, end |-> 10]
        /\ out = SubSeq(fs[2], 1, 5) \o SubSeq(fs[3], 1, 5)

\* C17 witness: the scenario's read was done and filled the 10 bytes.
C17_Witness ==
    /\ ExampleRead
    /\ result = "Ok"
    /\ Len(out) = 10
    /\ out[1] = fs[2][1]
    /\ out[10] = fs[3][5]

\* ------------------------------------------------- PieceChecker at startup

\* InfoHash::from_bytes: a 20-byte digest of a piece buffer, here a checksum
\* of the bytes and their positions.
RECURSIVE InfoHashFromBytes(_)
InfoHashFromBytes(bytes) ==
    IF bytes = <<>> THEN 7
    ELSE (InfoHashFromBytes(SubSeq(bytes, 1, Len(bytes) - 1)) * 31
            + bytes[Len(bytes)] + 1) % 65521

\* The files of a store one after the other.
RECURSIVE Concat(_)
Concat(store) == IF store = <<>> THEN <<>> ELSE Head(store) \o Concat(Tail(store))

\* The bytes of piece i (from 0) of a store cut in pieces of piece_length.
PieceBytes(store, piece_length, i) ==
    SubSeq(Concat(store), i * piece_length + 1,
           Min((i + 1) * piece_length, Len(Concat(store))))

\* The metainfo of a layout: the pieces array holds the hash of every piece
\* of the files as published.
MetaInfo(files, piece_length) ==
    LET inf == [files |-> files, piece_length |-> piece_length, pieces |-> <<>>]
    IN  [inf EXCEPT !.pieces =
            [i \in 1..NumPieces(inf) |->
                InfoHashFromBytes(PieceBytes(FullFiles(inf), piece_length, i - 1))]]

\* The torrents added at startup.
StartupInfos ==
    { MetaInfo(l, pl) :
        l \in UNION { [1..n -> 0..MaxStartFileSize] : n \in 1..MaxFiles }, pl \in {2, 3} }

\* What may be on disk for file f of a torrent before startup: the published
\* bytes, nothing (absent or empty), a byte too many, a byte too few, or the
\* right size with a wrong byte.
OnDisk(inf, f) ==
    LET full == FullFiles(inf)[f]
        size == inf.files[f]
    IN  {full, <<>>, Append(full, 9)}
        \cup (IF size >= 2 THEN {SubSeq(full, 1, size - 1)} ELSE {})
        \cup (IF size >= 1 THEN {[full EXCEPT ![1] = 255]} ELSE {})

\* The stores a torrent may find at startup.
Stores(inf) ==
    { st \in [1..Len(inf.files) -> UNION { OnDisk(inf, f) : f \in 1..Len(inf.files) }] :
        \A f \in 1..Len(inf.files) : st[f] \in OnDisk(inf, f) }

\* The result of validating up to some file: the store, the file system calls
\* made, and the error, if any.
Validated(store, ops, err) == [fs |-> store, ops |-> ops, err |-> err]
OpenOp(f) == [op |-> "open_file", file |-> f, offset |-> 0, bytes |-> <<>>]
SizeOp(f) == [op |-> "file_size", file |-> f, offset |-> 0, bytes |-> <<>>]
WriteOp(f, offset, bytes) == [op |-> "write_file", file |-> f, offset |-> offset, bytes |-> bytes]

\* TorrentErrorKind::ExistingFileSizeCheck (piece_checker.rs:116-120)
ExistingFileSizeCheck(file_path, expected_size, actual_size) ==
    [file_path |-> file_path, expected_size |-> expected_size, actual_size |-> actual_size]

\* The offset of the byte that allocates a file, taken one too far.
AllocateOffset_PastEnd(expected_size) == expected_size

\* The offset of the byte that allocates a file (piece_checker.rs:113).
AllocateOffset(expected_size) == expected_size - 1

\* The test of piece_checker.rs:112 without its second half.
ShouldAllocate_AnySize(size_matches, size_is_zero) == ~size_matches

\* The test of piece_checker.rs:112: a file of no bytes and of the wrong size.
ShouldAllocate(size_matches, size_is_zero) == ~size_matches /\ size_is_zero

\* The body of the loop of validate_files_sizes for file f
\* (piece_checker.rs:99-124).
ValidateFile(v, inf, f) ==
    LET expected_size == inf.files[f]
        actual_size == Len(v.fs[f])
        size_matches == actual_size = expected_size
        size_is_zero == actual_size = 0
        opened == v.ops \o <<OpenOp(f), SizeOp(f)>>
    IN  IF ShouldAllocate(size_matches, size_is_zero)
        THEN Validated(WriteFile(v.fs, f, AllocateOffset(expected_size), <<0>>),
                       Append(opened, WriteOp(f, AllocateOffset(expected_size), <<0>>)),
                       <<>>)
        ELSE IF ~size_matches
        THEN Validated(v.fs, opened,
                       <<ExistingFileSizeCheck(f, expected_size, actual_size)>>)
        ELSE Validated(v.fs, opened, <<>>)

\* The loop of validate_files_sizes from file f on: try! leaves at the first
\* error (piece_checker.rs:98-125).
RECURSIVE ValidateFrom(_, _, _)
ValidateFrom(v, inf, f) ==
    IF f > Len(inf.files) \/ v.err # <<>> THEN v
    ELSE ValidateFrom(ValidateFile(v, inf, f), inf, f + 1)

\* validate_files_sizes (piece_checker.rs:97-128)
ValidateFilesSizes(store, inf) == ValidateFrom(Validated(store, <<>>, <<>>), inf, 1)

\* last_piece_size (piece_checker.rs:131-136)
LastPieceSize(inf) == TotalBytes(inf.files) % inf.piece_length

\* The loop of fill_checker_state (piece_checker.rs:80-82).
RECURSIVE FillFullPieces(_, _, _, _)
FillFullPieces(cs, piece_index, full_pieces, piece_length) ==
    IF piece_index >= full_pieces THEN cs
    ELSE FillFullPieces(AddPendingBlockTo(cs, PieceMessage(piece_index, 0, piece_length)),
                        piece_index + 1, full_pieces, piece_length)

\* The test of piece_checker.rs:84 taken to hold always.
HasLastPiece_Always(last_piece_size) == TRUE

\* The test of piece_checker.rs:84.
HasLastPiece(last_piece_size) == last_piece_size # 0

\* fill_checker_state (piece_checker.rs:73-89)
FillCheckerState(cs, inf) ==
    LET piece_length == inf.piece_length
        total_bytes == TotalBytes(inf.files)
        full_pieces == total_bytes \div piece_length
        last_piece_size == LastPieceSize(inf)
        filled == FillFullPieces(cs, 0, full_pieces, piece_length)
    IN  IF HasLastPiece(last_piece_size)
        THEN AddPendingBlockTo(filled, PieceMessage(full_pieces, 0, last_piece_size))
        ELSE filled

\* The callback of calculate_diff on one message (piece_checker.rs:53-63):
\* read the piece, hash it, compare with the expected hash.
CheckPiece(store, inf, message) ==
    LET piece_buffer == [j \in 1..inf.piece_length |-> 0]
        r == ReadPieceOn(store, inf, SubSeq(piece_buffer, 1, message.block_length), message)
        calculated_hash == InfoHashFromBytes(r.buffer)
        expected_hash == inf.pieces[message.piece_index + 1]
    IN  IF ~r.ok THEN "err"
        ELSE IF calculated_hash = expected_hash THEN "good" ELSE "bad"

\* A torrent and the files found for it, before PieceChecker::new.
InitStartup ==
    /\ ConnInit
    /\ info \in StartupInfos
    /\ fs \in Stores(info)
    /\ checker_state = NewCheckerState(0, 0)
    /\ phase = "start"
    /\ msg = PieceMessage(0, 0, 0)
    /\ buf = <<>>
    /\ out = <<>>
    /\ io = <<>>
    /\ result = "None"
    /\ fs0 = fs
    /\ reported = {}
    /\ last_op = "none"
    /\ adds = 0
    /\ size_check = <<>>

\* PieceChecker::new (piece_checker.rs:21-31)
NewPieceChecker ==
    /\ phase = "start"
    /\ LET total_blocks == Len(info.pieces)
           last_piece_size == LastPieceSize(info)
           v == ValidateFilesSizes(fs, info)
       IN  /\ fs' = v.fs
           /\ io' = v.ops
           /\ size_check' = v.err
           /\ IF v.err # <<>>
              THEN /\ checker_state' = NewCheckerState(total_blocks, last_piece_size)
                   /\ result' = "ExistingFileSizeCheck"
                   /\ phase' = "failed"
              ELSE /\ checker_state' =
                        FillCheckerState(NewCheckerState(total_blocks, last_piece_size), info)
                   /\ result' = "Ok"
                   /\ phase' = "created"
    /\ UNCHANGED <<conn_vars, env_vars, info, msg, buf, out, fs0, reported, last_op, adds>>

\* calculate_diff (piece_checker.rs:44-67)
CalculateDiff ==
    /\ phase = "created"
    /\ LET merged == MergePiecesOn(checker_state)
           eligible == Eligible(merged, info.piece_length)
           verdict == [k \in eligible |-> CheckPiece(fs, info, merged.pending_blocks[k][1])]
       IN  \E order \in Orders(eligible) :
              LET r == RunWithWholePiecesOn(checker_state, info.piece_length, order, verdict)
              IN  /\ checker_state' = r.cs
                  /\ io' = r.called
                  /\ result' = IF r.ok THEN "Ok" ELSE "Err"
    /\ phase' = "scanned"
    /\ last_op' = "run"
    /\ UNCHANGED <<conn_vars, env_vars, info, fs, msg, buf, out, fs0, reported, adds,
                   size_check>>

\* The caller takes the diff with run_with_diff.
DispatchDiff ==
    /\ phase = "scanned"
    /\ checker_state' = RunWithDiffOn(checker_state)
    /\ phase' = "dispatched"
    /\ last_op' = "diff"
    /\ UNCHANGED <<conn_vars, env_vars, info, fs, msg, buf, out, io, result, fs0,
                   reported, adds, size_check>>

\* The startup of one torrent.
NextStartup ==
    \/ NewPieceChecker
    \/ CalculateDiff
    \/ DispatchDiff

SpecStartup == InitStartup /\ [][NextStartup]_vars

\* The files whose size before startup is neither the expected one nor zero,
\* the first of them (one past the last file if there is none), and the
\* write_file calls validation made on file f.
WrongSize == { f \in 1..Len(info.files) : Len(fs0[f]) # info.files[f] /\ Len(fs0[f]) # 0 }
FirstWrong ==
    IF WrongSize = {} THEN Len(info.files) + 1
    ELSE CHOOSE f \in WrongSize : \A g \in WrongSize : f <= g
WritesOn(f) == SelectSeq(io, LAMBDA o : o.op = "write_file" /\ o.file = f)
Touched == { io[j].file : j \in 1..Len(io) }

\* C18: validate_files_sizes takes the files in order; a file of the expected
\* size is accepted and left as it is; a file of size zero whose expected size
\* is not zero gets exactly one write, of one zero byte at expected_size - 1;
\* a file of any other size fails the validation with ExistingFileSizeCheck
\* carrying its path, expected size and actual size, and no later file is
\* opened or changed.
C18_ValidatePerFile ==
    phase \in {"created", "failed"} =>
        /\ (phase = "failed") <=> (WrongSize # {})
        /\ (phase = "created") => size_check = <<>>
        /\ \A j \in 1..(Len(io) - 1) : io[j].file <= io[j + 1].file
        /\ \A f \in 1..Len(info.files) :
              LET expected == info.files[f]
                  actual == Len(fs0[f])
              IN  /\ (f < FirstWrong /\ actual = expected) =>
                        (f \in Touched /\ WritesOn(f) = <<>> /\ fs[f] = fs0[f])
                  /\ (f < FirstWrong /\ actual = 0 /\ expected # 0) =>
                        /\ WritesOn(f) = <<WriteOp(f, expected - 1, <<0>>)>>
                        /\ fs[f] = [j \in 1..expected |-> 0]
                  /\ (f = FirstWrong) =>
                        /\ size_check = <<ExistingFileSizeCheck(f, expected, actual)>>
                        /\ WritesOn(f) = <<>>
                        /\ fs[f] = fs0[f]
                  /\ (f > FirstWrong) => (f \notin Touched /\ fs[f] = fs0[f])

\* C18 witness: of three files the first was found empty and allocated, the
\* second has a byte too many and failed the validation, and the third, also
\* found empty, was not processed.
C18_Witness ==
    /\ phase = "failed"
    /\ info.files = <<2, 2, 2>>
    /\ fs0 = <<<<>>, <<65, 66, 9>>, <<>>>>
    /\ fs = <<<<0, 0>>, <<65, 66, 9>>, <<>>>>
    /\ size_check = <<ExistingFileSizeCheck(2, 2, 3)>>
    /\ Touched = {1, 2}

\* Validation never wrote to a file that had bytes before startup.
NonEmptyFilesKept ==
    phase \in {"created", "failed"} =>
        \A f \in 1..Len(info.files) : Len(fs0[f]) # 0 => fs[f] = fs0[f]

\* C19 as stated: when validation fails with ExistingFileSizeCheck the file
\* system is as it was before startup (no bytes written to any file), and
\* validation never writes to a file whose existing size is not zero.
C19_FailedStartupWritesNothing ==
    /\ phase = "failed" => fs = fs0
    /\ NonEmptyFilesKept

\* C19 as amended: when validation fails with ExistingFileSizeCheck, the
\* failing file and the files after it are as they were, and a file before it
\* has changed only if it was found with size zero, to its expected size in
\* zero bytes; a torrent of one file is left unchanged; and validation never
\* writes to a file whose existing size is not zero.
C19_FailedStartupKeepsData ==
    /\ phase = "failed" =>
          /\ \A f \in 1..Len(info.files) :
                fs[f] # fs0[f] =>
                    /\ f < FirstWrong
                    /\ fs0[f] = <<>>
                    /\ fs[f] = [j \in 1..info.files[f] |-> 0]
          /\ Len(info.files) = 1 => fs = fs0
    /\ NonEmptyFilesKept

\* C19 witness: validation failed on the third file after it had allocated
\* the first, found empty, and accepted the second, which has its bytes.
C19_Witness ==
    /\ phase = "failed"
    /\ FirstWrong = 3
    /\ fs0[1] = <<>>
    /\ fs[1] # <<>>
    /\ fs0[2] # <<>>
    /\ fs[2] = fs0[2]
    /\ fs[3] = fs0[3]

\* The pieces of the torrent, and the state calculate_diff owes piece i.
Pieces == 0..(Len(info.pieces) - 1)
StateOf(i) ==
    IF InfoHashFromBytes(PieceBytes(fs, info.piece_length, i)) = info.pieces[i + 1]
    THEN Good(i) ELSE Bad(i)

\* C20: fill_checker_state registers one pending block (i, 0, piece_length)
\* for each of the total_bytes / piece_length full pieces and, only when
\* total_bytes % piece_length is not 0, one last block
\* (full_pieces, 0, last_piece_size); calculate_diff classifies every piece
\* exactly once, Good(i) when the hash of its bytes is the i-th expected hash
\* and Bad(i) otherwise; with correct files every piece is Good, and after
\* run_with_diff old_states holds all the states and new_states is empty.
C20_StartupScan ==
    LET piece_length == info.piece_length
        total_bytes == TotalBytes(info.files)
        full_pieces == total_bytes \div piece_length
        last_piece_size == total_bytes % piece_length
        pending == checker_state.pending_blocks
        new_states == checker_state.new_states
    IN  /\ phase = "created" =>
              /\ DOMAIN pending = 0..(full_pieces - 1)
                                    \cup (IF last_piece_size # 0 THEN {full_pieces} ELSE {})
              /\ \A i \in 0..(full_pieces - 1) :
                    pending[i] = <<PieceMessage(i, 0, piece_length)>>
              /\ last_piece_size # 0 =>
                    pending[full_pieces] = <<PieceMessage(full_pieces, 0, last_piece_size)>>
        /\ phase = "scanned" =>
              /\ result = "Ok"
              /\ Len(new_states) = Cardinality(Pieces)
              /\ Len(io) = Cardinality(Pieces)
              /\ \A i \in Pieces :
                    /\ \E j \in 1..Len(new_states) : new_states[j] = StateOf(i)
                    /\ \E j \in 1..Len(io) : io[j].piece_index = i
              /\ fs0 = FullFiles(info) => \A i \in Pieces : StateOf(i) = Good(i)
        /\ phase = "dispatched" =>
              /\ new_states = <<>>
              /\ checker_state.old_states = { StateOf(i) : i \in Pieces }
              /\ fs0 = FullFiles(info) =>
                    checker_state.old_states = { Good(i) : i \in Pieces }

\* C20 witness: correct files, two or more, in three pieces of which the last
\* is short, were scanned and dispatched.
C20_Witness ==
    /\ phase = "dispatched"
    /\ fs0 = FullFiles(info)
    /\ Len(info.files) >= 2
    /\ LastPieceSize(info) # 0
    /\ checker_state.new_states = <<>>
    /\ checker_state.old_states = {Good(0), Good(1), Good(2)}

\* ------------------------------------------ PieceCheckerState, further claims

\* The full length of piece i of a torrent: piece_length, and for the last
\* piece what is left of the torrent's bytes.
FullLength(inf, i) ==
    IF i = Len(inf.pieces) - 1
    THEN TotalBytes(inf.files) - i * inf.piece_length
    ELSE inf.piece_length

\* The pieces a run_with_whole_pieces on cs is to classify: after merging, one
\* entry of the piece's full length, and Good(i) not in old_states.
Classifiable(cs, inf) ==
    LET merged == MergePiecesOn(cs).pending_blocks
    IN  { i \in DOMAIN merged :
            /\ Len(merged[i]) = 1
            /\ merged[i][1].block_length = FullLength(inf, i)
            /\ Good(i) \notin cs.old_states }

\* C21: run_with_whole_pieces (its callback returning no error) invokes the
\* callback for piece i if and only if, after merging, the list of piece i has
\* exactly one entry of the piece's full length and Good(i) is not in
\* old_states; it invokes it once for each such piece, pushes one Good(i) or
\* Bad(i) for it and clears its list; the other lists are left as merged.
C21_CallbackIffWholePiece ==
    [][ (RunWithWholePieces /\ result' = "Ok") =>
          LET todo == Classifiable(checker_state, info)
              merged == MergePiecesOn(checker_state).pending_blocks
              before == checker_state.new_states
              after == checker_state'.new_states
              pushed == SubSeq(after, Len(before) + 1, Len(after))
          IN  /\ { io'[j].piece_index : j \in 1..Len(io') } = todo
              /\ Len(io') = Cardinality(todo)
              /\ SubSeq(after, 1, Len(before)) = before
              /\ Len(pushed) = Cardinality(todo)
              /\ { pushed[j].index : j \in 1..Len(pushed) } = todo
              /\ \A i \in DOMAIN merged :
                    checker_state'.pending_blocks[i] = IF i \in todo THEN <<>> ELSE merged[i]
      ]_vars

C23_BadPiecesRechecked ==
    [][ (RunWithWholePieces /\ result' = "Ok") =>
          LET merged == MergePiecesOn(checker_state).pending_blocks
              whole == { i \in DOMAIN merged :
                           /\ Len(merged[i]) = 1
                           /\ merged[i][1].block_length = FullLength(info, i) }
              before == checker_state.new_states
              after == checker_state'.new_states
              called == { io'[j].piece_index : j \in 1..Len(io') }
          IN  \A i \in whole :
                 /\ (Bad(i) \in checker_state.old_states /\ Good(i) \notin checker_state.old_states)
                       => /\ i \in called
                          /\ \E j \in (Len(before) + 1)..Len(after) : after[j].index = i
                 /\ i \notin called <=> Good(i) \in checker_state.old_states
      ]_vars

\* C23 witness: piece 0, recorded as Bad by run_with_diff, was completed again,
\* given to the callback again and pushed as Good.
C23_Witness ==
    /\ last_op = "run"
    /\ Bad(0) \in checker_state.old_states
    /\ Good(0) \notin checker_state.old_states
    /\ io = <<PieceMessage(0, 0, 4)>>
    /\ checker_state.new_states = <<Good(0)>>

\* ------------------------------------------------- the wire, further claims

\* The BlockLoaded of token t has been taken from the inbound channel: the
\* disk manager answered the LoadBlock of t and the answer is no longer there.
LoadedReceived(t) ==
    /\ t \in answered
    /\ t \in TokensOf(DiskOf("LoadBlock"))
    /\ \A i \in 1..Len(recv) : ~(recv[i].src = "DiskManager" /\ recv[i].token = t)

\* C24: every write_queue entry that carries a token is a Piece message whose
\* BlockLoaded(token) has been received, and every entry of another message
\* type carries no token.
C24_TokenOnlyOnLoadedPiece ==
    \A i \in 1..Len(write_queue) :
        LET e == write_queue[i]
        IN  /\ e.token # NoToken => (e.msg.t = "Piece" /\ LoadedReceived(e.token))
            /\ e.msg.t # "Piece" => e.token = NoToken

\* C24 witness: write_queue holds a message without token followed by a Piece
\* with its token.
C24_Witness ==
    /\ Len(write_queue) >= 2
    /\ write_queue[1].token = NoToken
    /\ write_queue[1].msg.t = "Have"
    /\ write_queue[2].token # NoToken
    /\ write_queue[2].msg.t = "Piece"

\* C25: the token of the DiskReserve state (the inbound reservation) is not a
\* key of block_queue (the outbound loads).
C25_ReserveTokenNotInBlockQueue ==
    state.k = "DiskReserve" => state.token \notin DOMAIN block_queue

\* C25 witness: an inbound block awaits its reservation while an outbound
\* Piece awaits its block.
C25_Witness ==
    /\ state.k = "DiskReserve"
    /\ block_queue # <<>>
    /\ outcome = "live"

\* C26 (state): on a live connection block_queue maps exactly the tokens whose
\* LoadBlock was sent and whose BlockLoaded has not been processed, each to
\* the Piece message of its LoadBlock.
C26_PendingLoads ==
    outcome = "live" =>
        /\ DOMAIN block_queue =
              { t \in TokensOf(DiskOf("LoadBlock")) : ~LoadedReceived(t) }
        /\ \A i \in 1..Len(disk_out) :
              (disk_out[i].kind = "LoadBlock" /\ disk_out[i].token \in DOMAIN block_queue)
                  => block_queue[disk_out[i].token] = disk_out[i].msg
        /\ LET asked == SelectSeq(sel_log, LAMBDA k : k.kind = "PeerPiece")
               waiting == SelectSeq(recv, LAMBDA m : m.src = "PieceManager" /\ m.kind = "PeerPiece")
           IN  MsgsOf(DiskOf("LoadBlock")) \o MsgsOf(waiting) = MsgsOf(asked)

\* C26 (steps): an entry leaves block_queue only in a wakeup that takes the
\* disk manager's message carrying its token from the inbound channel.
C26_RemovedByItsEvent ==
    \A t \in DOMAIN block_queue \ DOMAIN block_queue' :
        /\ Wakeup
        /\ \E i \in 1..Len(recv) : recv[i].src = "DiskManager" /\ recv[i].token = t

\* C26: block_queue holds exactly the outbound Pieces whose block was asked
\* of the disk and not yet delivered, and only the disk event carrying an
\* entry's token removes it.
C26_BlockQueueExact == []C26_PendingLoads /\ [][C26_RemovedByItsEvent]_vars

\* C26 witness: of two outbound Pieces one has its block and is queued for
\* writing, the other still waits in block_queue.
C26_Witness ==
    /\ outcome = "live"
    /\ Len(DiskOf("LoadBlock")) = 2
    /\ Cardinality(DOMAIN block_queue) = 1
    /\ \E i \in 1..Len(write_queue) : write_queue[i].token # NoToken

\* C27: in DiskReserve(t, n) only BlockReserved(t) completes the reservation:
\* a wakeup that finds no BlockReserved(t) in the inbound channel, a
\* BlockLoaded(t) with the reserve token among its messages or not, writes no
\* bytes to the disk slot, issues no ProcessBlock, consumes no input bytes and
\* leaves the state in DiskReserve.
C27_OnlyReservedCompletes ==
    [][ ( /\ Wakeup
          /\ state.k = "DiskReserve"
          /\ \A i \in 1..Len(recv) : recv[i] # FromDisk("BlockReserved", state.token) )
        => /\ blocks' = blocks
           /\ consumed' = consumed
           /\ state'.k = "DiskReserve"
           /\ \A i \in 1..Len(disk_out') :
                 disk_out'[i].kind = "ProcessBlock" => i <= Len(disk_out)
      ]_vars

\* C28 (after): once a disconnect path has been taken the engine makes no
\* further transition: nothing of the connection changes and nothing more
\* goes to the peer.
C28_NoStepAfterDisconnect ==
    error # "None" => UNCHANGED <<conn_vars, wire_out>>

\* C28 (the step): the step that disconnects writes no message (the front of
\* write_queue stays), and leaves the inbound channel as it was, or, when it
\* is the wakeup that found the selector's PeerDisconnect, holding the
\* messages behind that PeerDisconnect.
C28_DisconnectStep ==
    (error = "None" /\ error' # "None") =>
        /\ outcome' = "disconnected"
        /\ ~WriteStarts
        /\ Len(write_queue') >= Len(write_queue)
        /\ SubSeq(write_queue', 1, Len(write_queue)) = write_queue
        /\ \/ recv' = recv
           \/ /\ Wakeup
              /\ error' = "RemoteDisconnect"
              /\ \E i \in 1..Len(recv) :
                    /\ recv[i].src = "PieceManager" /\ recv[i].kind = "PeerDisconnect"
                    /\ \A j \in 1..(i - 1) :
                          ~(recv[j].src = "PieceManager" /\ recv[j].kind = "PeerDisconnect")
                    /\ recv' = Drop(recv, i)

\* C28 (pending tokens): on a disconnected connection no ReclaimBlock or
\* ProcessBlock was issued for a token still in block_queue or held by
\* DiskReserve.
C28_PendingLeftAlone ==
    error # "None" =>
        \A i \in 1..Len(disk_out) :
            disk_out[i].kind \in {"ReclaimBlock", "ProcessBlock"} =>
                /\ disk_out[i].token \notin DOMAIN block_queue
                /\ state.k = "DiskReserve" => disk_out[i].token # state.token

\* C28: disconnect is terminal: after a timer expiration, a decode error or
\* the selector's PeerDisconnect found in wakeup the engine makes no further
\* transition, the rest of the inbound channel stays unprocessed, the
\* messages in write_queue are never written and no disk message is issued
\* for the tokens still pending.
C28_DisconnectTerminal ==
    /\ []C28_PendingLeftAlone
    /\ [][C28_NoStepAfterDisconnect /\ C28_DisconnectStep]_vars

\* C28 witness: the selector's PeerDisconnect ended the connection with a
\* BlockLoaded still in the inbound channel and its Piece in block_queue.
C28_Witness ==
    /\ outcome = "disconnected"
    /\ error = "RemoteDisconnect"
    /\ recv # <<>>
    /\ block_queue # <<>>
    /\ Len(sel_out) = 0

\* C30 (state): on a live connection the credits taken from the SplitSender
\* (8 minus the available credit) are the selector's messages still in the
\* inbound channel, plus those in write_queue, plus those in block_queue,
\* plus one in WritePayload; so the taken credits stay within 0..8 and
\* write_queue and block_queue together hold at most 8 messages.
C30_Conserved ==
    outcome = "live" =>
        /\ unacked = Cardinality(SelectorInRecv) + Len(write_queue)
                        + Cardinality(DOMAIN block_queue)
                        + (IF state = WritePayload THEN 1 ELSE 0)
        /\ unacked \in 0..MAX_INCOMING_MESSAGES
        /\ Len(write_queue) + Cardinality(DOMAIN block_queue) <= MAX_INCOMING_MESSAGES

\* C30 (flush): a bytes_flushed that does not disconnect gives back exactly
\* one credit and goes through ReadLength: it ends there, or in WritePayload
\* with the front of write_queue written.
C30_FlushAcksOne ==
    (BytesFlushed /\ outcome' = "live") =>
        /\ state = WritePayload
        /\ unacked' = unacked - 1
        /\ IF write_queue = <<>>
           THEN state' = ReadLength /\ out_buffer' = <<>>
           ELSE /\ state' = WritePayload
                /\ out_buffer' = <<Head(write_queue)>>
                /\ write_queue' = Tail(write_queue)

\* C30: credit conservation, with every bytes_flushed acking one credit.
C30_CreditConservation == []C30_Conserved /\ [][C30_FlushAcksOne]_vars

\* C30 witness: after a flush gave a credit back, two credits are out: one
\* message is being written and one outbound Piece waits in block_queue.
C30_Witness ==
    /\ outcome = "live"
    /\ wire_out # <<>>
    /\ unacked = 2
    /\ state = WritePayload
    /\ Cardinality(DOMAIN block_queue) = 1

\* ------------------------------------------- claims: the inbound channel

\* The disk requests that still await their one answer.
Unanswered ==
    { i \in 1..Len(disk_out) :
        /\ disk_out[i].kind \in {"LoadBlock", "ReserveBlock"}
        /\ disk_out[i].token \notin answered }

\* C29: the inbound channel of capacity MAX_INCOMING_MESSAGES + 1 = 9 never
\* holds more than 9 messages, and no send finds it full: while the SplitSender
\* has a credit to give, or the disk manager owes an answer, the channel holds
\* fewer than 9.
C29_ChannelNeverFull ==
    outcome = "live" =>
        /\ Len(recv) <= MAX_INCOMING_MESSAGES + 1
        /\ unacked < MAX_INCOMING_MESSAGES => Len(recv) < MAX_INCOMING_MESSAGES + 1
        /\ Unanswered # {} => Len(recv) < MAX_INCOMING_MESSAGES + 1

\* C29 witness: the channel holds 9 messages, the selector's eight, one a
\* Piece, and the disk manager's BlockReserved.
C29_Witness ==
    /\ outcome = "live"
    /\ Len(recv) = MAX_INCOMING_MESSAGES + 1
    /\ Cardinality(SelectorInRecv) = MAX_INCOMING_MESSAGES
    /\ \E i \in 1..Len(recv) : recv[i].kind = "BlockReserved"
    /\ \E i \in 1..Len(recv) : recv[i].kind = "PeerPiece"

\* ------------------------------------------- claims: expected disk events

\* Whether process_disk has an arm other than unreachable!() for the token.
Expected(token) ==
    \/ token \in DOMAIN block_queue
    \/ state.k = "DiskReserve" /\ state.token = token

\* C31 (state): every disk event waiting in the inbound channel of a live
\* connection is a BlockLoaded or BlockReserved whose token is a key of
\* block_queue or the token of the current DiskReserve state, and no two of
\* them carry the same token.
C31_DiskEventsExpected ==
    outcome = "live" =>
        \A i \in 1..Len(recv) :
            recv[i].src = "DiskManager" =>
                /\ recv[i].kind \in {"BlockLoaded", "BlockReserved"}
                /\ Expected(recv[i].token)
                /\ \A j \in 1..Len(recv) :
                      (recv[j].src = "DiskManager" /\ recv[j].token = recv[i].token) => j = i

\* C31 (step): no wakeup aborts, so process_disk never takes an unreachable!()
\* arm; bytes_read is called in ReadLength or ReadPayload only, so advance_read
\* never takes its own; and a callback that aborts is a bytes_read of a payload.
C31_NoViolationBranch ==
    /\ Wakeup => outcome' # "aborted"
    /\ BytesRead => state.k \in {"ReadLength", "ReadPayload"}
    /\ (outcome = "live" /\ outcome' = "aborted") => (BytesRead /\ state.k = "ReadPayload")

\* C31: with a disk manager that answers each LoadBlock and ReserveBlock once,
\* the invariant-violation arms of process_disk and advance_read are never
\* reached.
C31_DiskTokensExpected == []C31_DiskEventsExpected /\ [][C31_NoViolationBranch]_vars

\* C31 witness: with the clock past the first time unit, process_disk has
\* handled a BlockReserved (ProcessBlock was sent) and a BlockLoaded (the
\* loaded Piece was written and its block reclaimed).
C31_Witness ==
    /\ outcome = "live"
    /\ now > 0
    /\ \E i \in 1..Len(disk_out) : disk_out[i].kind = "ProcessBlock"
    /\ \E i \in 1..Len(disk_out) : disk_out[i].kind = "ReclaimBlock"

\* ------------------------------------------- claims: coverage of the merge

\* The byte offsets of a piece that the blocks of a list cover.
Covered(messages) ==
    UNION { m.block_offset .. (m.block_offset + m.block_length - 1) :
                m \in { messages[j] : j \in 1..Len(messages) } }

\* C32: merge_pieces preserves coverage: it keeps the pieces that have a list,
\* every piece's list covers the same byte offsets after it as before, and
\* every block of a piece's list is a block of that piece.
C32_CoverageKept ==
    MergePieces =>
        LET before == checker_state.pending_blocks
            after == checker_state'.pending_blocks
        IN  /\ DOMAIN after = DOMAIN before
            /\ \A k \in DOMAIN before :
                  /\ Covered(after[k]) = Covered(before[k])
                  /\ \A j \in 1..Len(after[k]) : after[k][j].piece_index = k
C32_MergeKeepsCoverage == [][C32_CoverageKept]_vars

\* C32 witness: merge_pieces made one block of two overlapping blocks of
\* piece 0 and left the block of piece 1 where it was.
C32_Witness ==
    /\ last_op = "merge"
    /\ adds = 3
    /\ DOMAIN checker_state.pending_blocks = {0, 1}
    /\ checker_state.pending_blocks[0] = << PieceMessage(0, 0, 3) >>
    /\ checker_state.pending_blocks[1] = << PieceMessage(1, 0, 1) >>

====
